---- MODULE Spec2Model ----
(***************************************************************************)
(* enchat: chunked file transfer (enchat_lib/file_transfer.py), the       *)
(* commands (enchat_lib/commands.py), session keys                         *)
(* (enchat_lib/session_key.py), the shutdown of start_chat (enchat.py)     *)
(* and the shared state they act on (enchat_lib/state.py).                 *)
(*                                                                         *)
(* Spec          the receiver side under arbitrary (duplicated, reordered, *)
(*               conflicting, forged) FILE metadata / chunk arrivals, and  *)
(*               assemble_file_from_chunks.                                *)
(* SpecTransfer  /share on the sender, then delivery of the messages of    *)
(*               the shared bundles in any order, then assembly.           *)
(* SpecShare     the /share command alone, on every kind of argument.      *)
(* SpecShutdown  start_chat leaving the UI loop while the outbox worker    *)
(*               drains the queue.                                         *)
(* SpecCommands  every command but /share, on every kind of argument, with *)
(*               lotteries, polls and presence heard from the room.        *)
(* SpecCrypto    session encryption and decryption under valid, foreign    *)
(*               and malformed keys and tokens.                            *)
(* SpecSession   the session key store under a running clock.              *)
(* SpecShutdownFair  SpecShutdown with the threads of start_chat scheduled *)
(*               fairly.                                                   *)
(* SpecLink      share links (enchat_lib/link_sharing.py): credentials and *)
(*               URLs built, taken apart and parsed.                       *)
(* SpecRace      the listener thread storing FILE messages statement by    *)
(*               statement while the UI thread runs /files and /download.  *)
(* SpecPolls     polls: /poll and /vote of this client, and the poll       *)
(*               messages of two nicks applied by the listener.            *)
(* SpecLottery   lotteries: /lottery of this client, and the lottery       *)
(*               messages delivered to this client and to a peer.          *)
(* SpecSync      every synchronisation message (file, poll, lottery) heard *)
(*               once or repeatedly.                                       *)
(* SpecInput     the input thread (enchat_lib/input.py) and the shutdown   *)
(*               event set by the signal handler.                          *)
(* SpecFiles     the listener storing FILE messages a handler at a time    *)
(*               while the UI loop runs /files and /download.              *)
(* SpecClean     /clean-chat in public and private rooms under a growing   *)
(*               roster.                                                   *)
(***************************************************************************)
EXTENDS Integers, Sequences, FiniteSets, TLC

VARIABLES
    available_files,  \* state.available_files : file_id -> record
    file_chunks,      \* state.file_chunks     : file_id -> (chunk_num -> chunk)
    outbox_queue,     \* state.outbox_queue    : sequence of queued operations
    temp_files,       \* files under FILE_TEMP_DIR : file_id -> bytes written
    buf,              \* the entries the latest handler appended to the buffer
    last,             \* the latest call and what it returned
    delivered,        \* history: (file_id, chunk_num) handed to handle_file_chunk
    relay,            \* the messages published on the relay topic
    shared,           \* history: file_id -> the bytes /share read for it
    main_pc,          \* where the main thread is in start_chat
    out_stop,         \* the out_stop event handed to the outbox worker
    in_flight,        \* the operation the worker took and has not marked done
    shutdown_log,     \* history: shutdown events, operations put and attempted
    lottery_state,    \* state.lottery_state : room -> lottery
    poll_state,       \* state.poll_state    : room -> poll
    room_participants,     \* state.room_participants : nick -> last seen
    notifications_enabled, \* state.notifications_enabled
    last_generated_link,   \* state.last_generated_link
    active_sessions,  \* session_key._active_sessions : room -> (key, timestamp)
    now,              \* the clock time.time() reads, in ticks
    listener_pc,      \* where the listener thread is inside a file handler
    peer_lottery_state,    \* state.lottery_state of another client of the room
    SHUTDOWN_EVENT,   \* enchat.SHUTDOWN_EVENT, the process-wide shutdown signal
    input_queue,      \* state.input_queue   : the lines typed
    current_input     \* state.current_input : the characters of the line so far

vars == <<available_files, file_chunks, outbox_queue, temp_files, buf, last,
          delivered, relay, shared, main_pc, out_stop, in_flight, shutdown_log,
          lottery_state, poll_state, room_participants, notifications_enabled,
          last_generated_link, active_sessions, now, listener_pc,
          peer_lottery_state, SHUTDOWN_EVENT, input_queue, current_input>>

sender_vars == <<outbox_queue, relay, shared>>
receiver_vars == <<available_files, file_chunks, delivered>>
shutdown_vars == <<main_pc, out_stop, in_flight, shutdown_log>>
store_vars == <<lottery_state, poll_state, room_participants,
                notifications_enabled, last_generated_link>>
session_vars == <<active_sessions, now>>
input_vars == <<SHUTDOWN_EVENT, input_queue, current_input>>
thread_vars == <<listener_pc, peer_lottery_state, input_vars>>
\* everything the file transfer code does not touch
beyond_transfer == <<shutdown_vars, store_vars, session_vars, thread_vars>>

----------------------------------------------------------------------------
(* Bounds of the model *)

CHUNK_SIZE == 2        \* constants.CHUNK_SIZE, scaled to bytes of the model
MAX_FILE_SIZE == 3     \* constants.MAX_FILE_SIZE, scaled
MiB == 2               \* the 1024*1024 divisor of the error text, scaled
MaxChunkNum == 2       \* chunk numbers a forged chunk message may carry
MaxTotal == 2          \* total_chunks a forged metadata message may carry

Bytes == {0, 1}
FileIds == {"f1"}
ShareIds == {"f1", "f2"}
Nicks == {"alice"}
RoomKey == "room"

None == "None"
NoMetadata == [none |-> TRUE]                  \* 'metadata': None
NoFile == [exists |-> FALSE, bytes |-> <<>>]   \* no file at the path
File(bytes) == [exists |-> TRUE, bytes |-> bytes]

----------------------------------------------------------------------------
(* Byte strings *)

RECURSIVE SeqsUpTo(_)
SeqsUpTo(n) ==
    IF n = 0 THEN {<<>>}
    ELSE LET S == SeqsUpTo(n - 1)
         IN  S \cup {Append(s, b) : s \in {t \in S : Len(t) = n - 1}, b \in Bytes}

Min(S) == CHOOSE x \in S : \A y \in S : x <= y

Max(S) == CHOOSE x \in S : \A y \in S : x >= y

\* variant of sorted: descending order
RECURSIVE sorted_descending(_)
sorted_descending(S) ==
    IF S = {} THEN <<>>
    ELSE LET m == Max(S) IN <<m>> \o sorted_descending(S \ {m})

\* sorted(chunks_dict.keys())
RECURSIVE sorted(_)
sorted(S) ==
    IF S = {} THEN <<>>
    ELSE LET m == Min(S) IN <<m>> \o sorted(S \ {m})

\* hashlib.sha256: a collision-free digest of the bytes fed to update()
sha256(bytes) == [digest |-> bytes]

\* Fernet: authenticated encryption. A token decrypts to its plaintext under
\* the key that made it, and fails (InvalidToken) under another key or after
\* any modification of the token.
encrypt(key, plaintext) == [key |-> key, pt |-> plaintext, tampered |-> FALSE]

decrypt(key, token) ==
    IF token.key = key /\ ~token.tampered
    THEN [ok |-> TRUE, data |-> token.pt]
    ELSE [ok |-> FALSE, data |-> <<>>]

corrupt(token) == [token EXCEPT !.tampered = TRUE]

----------------------------------------------------------------------------
(* Receiver: enchat_lib/file_transfer.py *)

\* _check_file_completion(file_id, buf): the record map and the buffer
\* entries after the call.
check_file_completion(files, file_id) ==
    IF file_id \notin DOMAIN files
          \/ files[file_id].metadata = NoMetadata
          \/ files[file_id].complete
    THEN [files |-> files, buf |-> <<>>]
    ELSE LET received == files[file_id].chunks_received
             total == files[file_id].total_chunks
         IN  IF total > 0 /\ received = total
             THEN [files |-> [files EXCEPT ![file_id].complete = TRUE],
                   buf |-> <<"File Ready for Download">>]
             ELSE [files |-> files, buf |-> <<>>]

\* handle_file_metadata, lines 89-100: create the record on first sighting,
\* then overwrite metadata and total_chunks.
metadata_stored(files, metadata, sender) ==
    LET file_id == metadata.file_id
        base == IF file_id \notin DOMAIN files
                THEN [sender |-> sender, chunks_received |-> 0,
                      complete |-> FALSE]
                ELSE [sender |-> files[file_id].sender,
                      chunks_received |-> files[file_id].chunks_received,
                      complete |-> files[file_id].complete]
        rec == [metadata |-> metadata,
                sender |-> base.sender,
                chunks_received |-> base.chunks_received,
                total_chunks |-> metadata.total_chunks,
                complete |-> base.complete]
    IN  [f \in DOMAIN files \cup {file_id} |->
            IF f = file_id THEN rec ELSE files[f]]

\* the chunk map of a file_id, created empty on first sighting
chunks_ensured(chunks, file_id, fresh) ==
    [f \in DOMAIN chunks \cup {file_id} |->
        IF f = file_id /\ fresh THEN <<>> ELSE chunks[f]]

\* variant of handle_file_metadata: no completion check after the metadata
handle_file_metadata_unchecked(metadata, sender) ==
    LET file_id == metadata.file_id
        fresh == file_id \notin DOMAIN available_files
    IN  /\ file_chunks' = chunks_ensured(file_chunks, file_id, fresh)
        /\ available_files' = metadata_stored(available_files, metadata, sender)
        /\ buf' = <<"File Transfer Incoming">>
        /\ last' = [op |-> "handle_file_metadata", file_id |-> file_id]
        /\ UNCHANGED <<sender_vars, temp_files, delivered, beyond_transfer>>

handle_file_metadata(metadata, sender) ==
    LET file_id == metadata.file_id
        fresh == file_id \notin DOMAIN available_files
        stored == metadata_stored(available_files, metadata, sender)
        checked == check_file_completion(stored, file_id)
    IN  /\ file_chunks' = chunks_ensured(file_chunks, file_id, fresh)
        /\ available_files' = checked.files
        /\ buf' = <<"File Transfer Incoming">> \o checked.buf
        /\ last' = [op |-> "handle_file_metadata", file_id |-> file_id]
        /\ UNCHANGED <<sender_vars, temp_files, delivered, beyond_transfer>>

\* variant of chunk_stored: every arrival overwrites the stored chunk
chunk_stored_overwriting(chunk_map, chunk_data) ==
    [n \in DOMAIN chunk_map \cup {chunk_data.chunk_num} |->
        IF n = chunk_data.chunk_num THEN chunk_data ELSE chunk_map[n]]

\* handle_file_chunk, lines 145-148: store the chunk unless its number is
\* already stored; chunks_received is the size of the chunk map.
chunk_stored(chunk_map, chunk_data) ==
    IF chunk_data.chunk_num \notin DOMAIN chunk_map
    THEN [n \in DOMAIN chunk_map \cup {chunk_data.chunk_num} |->
            IF n = chunk_data.chunk_num THEN chunk_data ELSE chunk_map[n]]
    ELSE chunk_map

\* variant of chunks_counted: every arrival is counted
chunks_counted_per_arrival(old_count, old_map, new_map, chunk_data) ==
    old_count + 1

chunks_counted(old_count, old_map, new_map, chunk_data) ==
    IF chunk_data.chunk_num \notin DOMAIN old_map
    THEN Cardinality(DOMAIN new_map)
    ELSE old_count

placeholder(sender) ==
    [metadata |-> NoMetadata, sender |-> sender, chunks_received |-> 0,
     total_chunks |-> -1, complete |-> FALSE]

\* Variant of handle_file_chunk: without the return of line 141 on a record
\* that is already complete
handle_file_chunk_after_complete(chunk_data, sender) ==
    LET file_id == chunk_data.file_id
        fresh == file_id \notin DOMAIN available_files
        files1 == [f \in DOMAIN available_files \cup {file_id} |->
                      IF f = file_id /\ fresh THEN placeholder(sender)
                      ELSE available_files[f]]
        chunks1 == chunks_ensured(file_chunks, file_id, fresh)
        new_map == chunk_stored(chunks1[file_id], chunk_data)
        count == chunks_counted(files1[file_id].chunks_received,
                                chunks1[file_id], new_map, chunk_data)
        files2 == [files1 EXCEPT ![file_id].chunks_received = count]
        checked == check_file_completion(files2, file_id)
    IN  /\ last' = [op |-> "handle_file_chunk", file_id |-> file_id,
                    chunk_num |-> chunk_data.chunk_num,
                    data |-> chunk_data.data,
                    again |-> <<file_id, chunk_data.chunk_num>> \in delivered]
        /\ delivered' = delivered \cup {<<file_id, chunk_data.chunk_num>>}
        /\ UNCHANGED <<sender_vars, temp_files, beyond_transfer>>
        /\ file_chunks' = [chunks1 EXCEPT ![file_id] = new_map]
        /\ available_files' = checked.files
        /\ buf' = checked.buf

handle_file_chunk(chunk_data, sender) ==
    LET file_id == chunk_data.file_id
        fresh == file_id \notin DOMAIN available_files
        files1 == [f \in DOMAIN available_files \cup {file_id} |->
                      IF f = file_id /\ fresh THEN placeholder(sender)
                      ELSE available_files[f]]
        chunks1 == chunks_ensured(file_chunks, file_id, fresh)
    IN  /\ last' = [op |-> "handle_file_chunk", file_id |-> file_id,
                    chunk_num |-> chunk_data.chunk_num,
                    data |-> chunk_data.data,
                    again |-> <<file_id, chunk_data.chunk_num>> \in delivered]
        /\ delivered' = delivered \cup {<<file_id, chunk_data.chunk_num>>}
        /\ UNCHANGED <<sender_vars, temp_files, beyond_transfer>>
        /\ IF files1[file_id].complete
           THEN /\ available_files' = files1
                /\ file_chunks' = chunks1
                /\ buf' = <<>>
           ELSE LET new_map == chunk_stored(chunks1[file_id], chunk_data)
                    count == chunks_counted(files1[file_id].chunks_received,
                                            chunks1[file_id], new_map, chunk_data)
                    files2 == [files1 EXCEPT ![file_id].chunks_received = count]
                    checked == check_file_completion(files2, file_id)
                IN  /\ file_chunks' = [chunks1 EXCEPT ![file_id] = new_map]
                    /\ available_files' = checked.files
                    /\ buf' = checked.buf

\* assemble_file_from_chunks, lines 199-205: decrypt the chunks in the given
\* order and write each one; a failing decrypt raises and leaves what was
\* written so far. Returns the bytes written and whether decrypt raised.
RECURSIVE write_chunks(_, _, _, _)
write_chunks(chunk_map, order, key, written) ==
    IF order = <<>> THEN [written |-> written, raised |-> FALSE]
    ELSE LET decrypted == decrypt(key, chunk_map[Head(order)].data)
         IN  IF ~decrypted.ok
             THEN [written |-> written, raised |-> TRUE]
             ELSE write_chunks(chunk_map, Tail(order), key,
                               written \o decrypted.data)

\* assemble_file_from_chunks(file_id, f_cipher): the returned pair and the
\* file left at temp_path.
assemble_file_from_chunks(files, chunks, temp, file_id, key) ==
    IF file_id \notin DOMAIN files \/ ~files[file_id].complete
    THEN [path |-> None, error |-> "File not available or incomplete",
          temp |-> temp]
    ELSE LET metadata == files[file_id].metadata
             chunks_dict == chunks[file_id]
             out == IF metadata.total_chunks = 0
                    THEN [written |-> <<>>, raised |-> FALSE]
                    ELSE write_chunks(chunks_dict, sorted(DOMAIN chunks_dict),
                                      key, <<>>)
         IN  IF out.raised
             THEN [path |-> None, error |-> "Error assembling file",
                   temp |-> [temp EXCEPT ![file_id] = File(out.written)]]
             ELSE IF sha256(out.written) # metadata.hash
             THEN [path |-> None, error |-> "File integrity check failed",
                   temp |-> [temp EXCEPT ![file_id] = NoFile]]
             ELSE [path |-> file_id, error |-> None,
                   temp |-> [temp EXCEPT ![file_id] = File(out.written)]]

Assemble(file_id) ==
    LET r == assemble_file_from_chunks(available_files, file_chunks,
                                       temp_files, file_id, RoomKey)
    IN  /\ temp_files' = r.temp
        /\ last' = [op |-> "assemble_file_from_chunks", file_id |-> file_id,
                    path |-> r.path, error |-> r.error]
        /\ buf' = <<>>
        /\ UNCHANGED <<receiver_vars, sender_vars, beyond_transfer>>

----------------------------------------------------------------------------
(* Spec: the Inbound Listener hands the handlers whatever the relay holds.  *)
(* Any holder of the room key can publish any metadata or chunk message.    *)

NoFiles == [f \in {} |-> None]
NoTemp == [f \in FileIds \cup ShareIds |-> NoFile]

ForgedBlocks == {<<0>>, <<1>>}
ForgedDigests == {sha256(<<>>), sha256(<<0>>), sha256(<<0, 1>>)}

ForgedMetadata ==
    [file_id : FileIds, filename : {"a.txt"}, size : {0},
     total_chunks : 0..MaxTotal, hash : ForgedDigests]

ForgedTokens ==
    {encrypt(RoomKey, b) : b \in ForgedBlocks} \cup {corrupt(encrypt(RoomKey, <<0>>))}

ForgedChunks ==
    [file_id : FileIds, chunk_num : 0..MaxChunkNum, data : ForgedTokens]

\* start_chat has started the outbox worker and entered chat_ui.run
NoShutdown == [events |-> <<>>, put |-> {}, attempted |-> {}]
NoLotteries == [room \in {} |-> None]
NoPolls == [room \in {} |-> None]
NoParticipants == [nick \in {} |-> 0]
NoSessions == [room \in {} |-> None]
Idle == [at |-> "idle"]     \* the listener is between two messages

Init ==
    /\ available_files = NoFiles
    /\ file_chunks = NoFiles
    /\ outbox_queue = <<>>
    /\ temp_files = NoTemp
    /\ buf = <<>>
    /\ last = [op |-> "start"]
    /\ delivered = {}
    /\ relay = {}
    /\ shared = NoFiles
    /\ main_pc = "run"
    /\ out_stop = FALSE
    /\ in_flight = <<>>
    /\ shutdown_log = NoShutdown
    /\ lottery_state = NoLotteries
    /\ poll_state = NoPolls
    /\ room_participants = NoParticipants
    /\ notifications_enabled = TRUE
    /\ last_generated_link = ""
    /\ active_sessions = NoSessions
    /\ now = 0
    /\ listener_pc = Idle
    /\ peer_lottery_state = NoLotteries
    /\ SHUTDOWN_EVENT = FALSE
    /\ input_queue = <<>>
    /\ current_input = <<>>

RecvMetadata == \E m \in ForgedMetadata, s \in Nicks : handle_file_metadata(m, s)

RecvChunk == \E c \in ForgedChunks, s \in Nicks : handle_file_chunk(c, s)

Download == \E file_id \in FileIds : Assemble(file_id)

Next == RecvMetadata \/ RecvChunk \/ Download

Spec == Init /\ [][Next]_vars

----------------------------------------------------------------------------
(* Sender: split_file_to_chunks, enqueue_file_transfer and /share *)

NoError == [text |-> None]

\* the blocks f.read(CHUNK_SIZE) returns from position pos until it returns
\* the empty block
RECURSIVE read_blocks(_, _)
read_blocks(bytes, pos) ==
    IF pos >= Len(bytes) THEN <<>>
    ELSE LET end == IF pos + CHUNK_SIZE < Len(bytes)
                    THEN pos + CHUNK_SIZE ELSE Len(bytes)
         IN  <<SubSeq(bytes, pos + 1, end)>> \o read_blocks(bytes, end)

RECURSIVE concat(_)
concat(blocks) ==
    IF blocks = <<>> THEN <<>> ELSE Head(blocks) \o concat(Tail(blocks))

\* variant of too_large: no size limit
too_large_never(file) == FALSE

\* split_file_to_chunks, lines 47-48: file_size > constants.MAX_FILE_SIZE
too_large(file) == Len(file.bytes) > MAX_FILE_SIZE

\* split_file_to_chunks(filepath, f_cipher) for the file found at filepath
\* and the file_id uuid4 draws. Python returns (metadata, chunks) or
\* (None, error text); reads and encrypts count the f.read and encrypt calls.
split_file_to_chunks(file, key, file_id, filename) ==
    IF ~file.exists
    THEN [metadata |-> NoMetadata, chunks |-> <<>>,
          error |-> [text |-> "File not found"], reads |-> 0, encrypts |-> 0]
    ELSE IF too_large(file)
    THEN [metadata |-> NoMetadata, chunks |-> <<>>,
          error |-> [text |-> "File too large", max_mb |-> MAX_FILE_SIZE \div MiB],
          reads |-> 0, encrypts |-> 0]
    ELSE IF ~file.readable
    THEN [metadata |-> NoMetadata, chunks |-> <<>>,
          error |-> [text |-> "Error reading file"], reads |-> 0, encrypts |-> 0]
    ELSE LET blocks == read_blocks(file.bytes, 0)
             chunks == [i \in 1..Len(blocks) |->
                           [file_id |-> file_id, chunk_num |-> i - 1,
                            data |-> encrypt(key, blocks[i])]]
         IN  [metadata |-> [file_id |-> file_id, filename |-> filename,
                            size |-> Len(file.bytes),
                            total_chunks |-> Len(chunks),
                            hash |-> sha256(concat(blocks))],
              chunks |-> chunks, error |-> NoError,
              reads |-> Len(blocks) + 1, encrypts |-> Len(blocks)]

\* variant of enqueue_file_transfer: the metadata and every chunk are queued
\* as operations of their own
enqueue_file_transfer_piecewise(queue, nick, metadata, chunks) ==
    queue \o <<[kind |-> "FILE_TRANSFER", nick |-> nick,
                payload |-> [metadata |-> metadata, chunks |-> <<>>]]>>
          \o [i \in 1..Len(chunks) |->
                [kind |-> "FILE_TRANSFER", nick |-> nick,
                 payload |-> [metadata |-> metadata, chunks |-> <<chunks[i]>>]]]

\* enqueue_file_transfer: one queue item holding the whole bundle
enqueue_file_transfer(queue, nick, metadata, chunks) ==
    Append(queue, [kind |-> "FILE_TRANSFER", nick |-> nick,
                   payload |-> [metadata |-> metadata, chunks |-> chunks]])

\* handle_command, cmd == "share", up to the failure returns: the buffer
\* entries and the error of a /share that enqueues nothing (NoError: the
\* split succeeded and the bundle goes on the queue).
share_error(filepath, file, r) ==
    IF filepath = "" THEN [text |-> "Usage: /share <filepath>"]
    ELSE IF ~file.exists THEN [text |-> "File not found"]
    ELSE IF r.metadata = NoMetadata THEN r.error
    ELSE NoError

\* handle_command, cmd == "share". file is what the file system holds at
\* filepath; file_id is the identifier uuid4 draws, taken to be unused.
share(filepath, file, file_id, nick) ==
    LET split_called == filepath # "" /\ file.exists
        r == split_file_to_chunks(file, RoomKey, file_id, filepath)
        error == share_error(filepath, file, r)
        call == [op |-> "share", filepath |-> filepath, exists |-> file.exists,
                 readable |-> file.readable, size |-> Len(file.bytes),
                 error |-> error,
                 reads |-> IF split_called THEN r.reads ELSE 0,
                 encrypts |-> IF split_called THEN r.encrypts ELSE 0]
    IN  /\ UNCHANGED <<receiver_vars, temp_files, relay, beyond_transfer>>
        /\ IF error # NoError
           THEN /\ buf' = IF split_called
                          THEN <<"Preparing to share", error.text>>
                          ELSE <<error.text>>
                /\ last' = call @@ [file_id |-> None]
                /\ UNCHANGED <<outbox_queue, shared>>
           ELSE /\ file_id \notin DOMAIN shared
                /\ outbox_queue' = enqueue_file_transfer(outbox_queue, nick,
                                                         r.metadata, r.chunks)
                /\ buf' = <<"Preparing to share", "Sharing Started">>
                /\ last' = call @@ [file_id |-> file_id]
                /\ shared' = [f \in DOMAIN shared \cup {file_id} |->
                                 IF f = file_id THEN file.bytes ELSE shared[f]]

\* network.outbox_worker: takes the oldest queued operation and publishes it;
\* a FILE_TRANSFER bundle goes out as one metadata message and one message
\* per chunk.
bundle_messages(payload) ==
    {[kind |-> "metadata", body |-> payload.metadata]}
        \cup {[kind |-> "chunk", body |-> payload.chunks[i]] :
                 i \in 1..Len(payload.chunks)}

outbox_worker ==
    /\ outbox_queue # <<>>
    /\ relay' = relay \cup bundle_messages(Head(outbox_queue).payload)
    /\ outbox_queue' = Tail(outbox_queue)
    /\ buf' = <<>>
    /\ last' = [op |-> "outbox_worker"]
    /\ UNCHANGED <<receiver_vars, temp_files, shared, beyond_transfer>>

----------------------------------------------------------------------------
(* SpecTransfer: files are shared, published, and the listener applies the  *)
(* published messages in any order, any number of times.                    *)

Missing == [exists |-> FALSE, readable |-> FALSE, bytes |-> <<>>]

\* the files /share may find: readable ones of every content up to one byte
\* over the limit, and unreadable ones (open raises) below and over the limit
FilesOnDisk ==
    [exists : {TRUE}, readable : {TRUE}, bytes : SeqsUpTo(MAX_FILE_SIZE + 1)]
        \cup [exists : {TRUE}, readable : {FALSE},
              bytes : {s \in SeqsUpTo(MAX_FILE_SIZE + 1) : \A i \in 1..Len(s) : s[i] = 0}]

\* the argument of /share and what the file system holds there
ShareInputs ==
    {[filepath |-> "", file |-> Missing], [filepath |-> "a.txt", file |-> Missing]}
        \cup [filepath : {"a.txt"}, file : FilesOnDisk]

Share ==
    \E input \in ShareInputs, file_id \in ShareIds, nick \in Nicks :
        share(input.filepath, input.file, file_id, nick)

\* the contents shared in a transfer: every length up to the limit, the
\* first byte fixed (no code inspects the value of a byte)
TransferContents == {s \in SeqsUpTo(MAX_FILE_SIZE) : s = <<>> \/ s[1] = 0}

\* /share of a readable file within the limit
ShareFile ==
    \E bytes \in TransferContents, file_id \in ShareIds,
       nick \in Nicks :
        share("a.txt", [exists |-> TRUE, readable |-> TRUE, bytes |-> bytes],
              file_id, nick)

ListenMetadata ==
    \E m \in relay, s \in Nicks :
        m.kind = "metadata" /\ handle_file_metadata(m.body, s)

ListenChunk ==
    \E m \in relay, s \in Nicks :
        m.kind = "chunk" /\ handle_file_chunk(m.body, s)

DownloadShared == \E file_id \in ShareIds : Assemble(file_id)

NextTransfer ==
    ShareFile \/ outbox_worker \/ ListenMetadata \/ ListenChunk \/ DownloadShared

SpecTransfer == Init /\ [][NextTransfer]_vars

(* SpecShare: the /share command on every kind of argument, and the worker  *)
(* that empties the queue.                                                  *)

NextShare == Share \/ outbox_worker

SpecShare == Init /\ [][NextShare]_vars

----------------------------------------------------------------------------
(* Properties of the receiver, checked under Spec *)

\* the plaintext of the chunks stored for a file, in ascending chunk_num
\* order, and whether one of them fails to decrypt
stored_plaintext(file_id) ==
    write_chunks(file_chunks[file_id], sorted(DOMAIN file_chunks[file_id]),
                 RoomKey, <<>>)

\* C1: handing handle_file_chunk a (file_id, chunk_num) it has been handed
\* before leaves chunks_received of that record as it was.
C1_DuplicateChunkKeepsCount ==
    [][(last'.op = "handle_file_chunk" /\ last'.again)
          => /\ last'.file_id \in DOMAIN available_files
             /\ available_files'[last'.file_id].chunks_received
                   = available_files[last'.file_id].chunks_received]_vars

C1_Witness ==
    /\ last.op = "handle_file_chunk"
    /\ last.again
    /\ ~available_files[last.file_id].complete
    /\ available_files[last.file_id].chunks_received = 2
    /\ file_chunks[last.file_id][last.chunk_num].data # last.data

\* C3: assemble_file_from_chunks returns a path only if the stored chunks all
\* decrypt and the hash of their plaintext equals the hash of the metadata.
C3_PathOnlyIfStoredChunksMatchHash ==
    (last.op = "assemble_file_from_chunks" /\ last.path # None)
        => /\ ~stored_plaintext(last.file_id).raised
           /\ sha256(stored_plaintext(last.file_id).written)
                 = available_files[last.file_id].metadata.hash

\* C4: when a stored chunk of a complete file fails to decrypt, assembly
\* returns an error and no file is left at the temporary path.
C4_DecryptFailureLeavesNoFile ==
    (/\ last.op = "assemble_file_from_chunks"
     /\ last.file_id \in DOMAIN available_files
     /\ available_files[last.file_id].complete
     /\ available_files[last.file_id].total_chunks > 0
     /\ stored_plaintext(last.file_id).raised)
        => /\ last.path = None
           /\ last.error # None
           /\ ~temp_files[last.file_id].exists

\* C5: once the metadata of an empty file (total_chunks = 0, no chunks) has
\* been applied the record is complete, and assembling it succeeds with an
\* empty file when the metadata hash is the digest of the empty input.
C5_EmptyFileCompletes ==
    \A f \in DOMAIN available_files :
        (/\ available_files[f].metadata # NoMetadata
         /\ available_files[f].total_chunks = 0
         /\ available_files[f].chunks_received = 0)
            => /\ available_files[f].complete
               /\ (/\ last.op = "assemble_file_from_chunks"
                   /\ last.file_id = f
                   /\ available_files[f].metadata.hash = sha256(<<>>))
                      => (last.path # None /\ temp_files[f] = File(<<>>))

\* C6: a record is complete exactly when its metadata is known and
\* chunks_received = total_chunks.
C6_CompleteIffAllReceived ==
    \A f \in DOMAIN available_files :
        available_files[f].complete
            <=> (/\ available_files[f].metadata # NoMetadata
                 /\ available_files[f].chunks_received
                       = available_files[f].total_chunks)

\* C8 as stated: a chunk arriving for a chunk_num already stored, with another
\* payload, before the file is complete, replaces the stored payload.
C8_LastWriteWins ==
    [][(/\ last'.op = "handle_file_chunk"
        /\ last'.file_id \in DOMAIN available_files
        /\ ~available_files[last'.file_id].complete
        /\ last'.chunk_num \in DOMAIN file_chunks[last'.file_id]
        /\ file_chunks[last'.file_id][last'.chunk_num].data # last'.data)
          => file_chunks'[last'.file_id][last'.chunk_num].data = last'.data]_vars

\* C8 amended: the payload stored for the chunk_num stays that of the earlier
\* arrival; the later message is ignored (first write wins).
C8_FirstWriteWins ==
    [][(/\ last'.op = "handle_file_chunk"
        /\ last'.file_id \in DOMAIN available_files
        /\ last'.chunk_num \in DOMAIN file_chunks[last'.file_id])
          => file_chunks'[last'.file_id][last'.chunk_num]
                = file_chunks[last'.file_id][last'.chunk_num]]_vars

C8_Witness ==
    /\ last.op = "handle_file_chunk"
    /\ last.again
    /\ ~available_files[last.file_id].complete
    /\ last.chunk_num \in DOMAIN file_chunks[last.file_id]
    /\ file_chunks[last.file_id][last.chunk_num].data = encrypt(RoomKey, <<0>>)
    /\ last.data = encrypt(RoomKey, <<1>>)

----------------------------------------------------------------------------
(* Properties of a transfer from /share to assembly, checked under          *)
(* SpecTransfer (C2, C7), and of /share, checked under SpecShare (C9, C10)  *)

published_metadata == {m.body : m \in {x \in relay : x.kind = "metadata"}}

\* the metadata and every one of the total_chunks chunks of the bundle have
\* been handed to the handlers
all_applied(metadata) ==
    /\ metadata.file_id \in DOMAIN available_files
    /\ available_files[metadata.file_id].metadata # NoMetadata
    /\ \A n \in 0..(metadata.total_chunks - 1) :
          <<metadata.file_id, n>> \in delivered

\* C2: for a shared file of N >= 1 chunks, whatever the arrival order and the
\* duplicates, the record is complete exactly when the metadata and all N
\* chunks have been applied.
C2_CompleteIffAllApplied ==
    \A metadata \in published_metadata :
        metadata.total_chunks >= 1
            => ((/\ metadata.file_id \in DOMAIN available_files
                 /\ available_files[metadata.file_id].complete)
                   <=> all_applied(metadata))

\* the metadata arrived after both chunks and completed the file
C2_Witness ==
    /\ last.op = "handle_file_metadata"
    /\ available_files[last.file_id].complete
    /\ available_files[last.file_id].total_chunks = 2
    /\ buf = <<"File Transfer Incoming", "File Ready for Download">>

\* C7: what assemble_file_from_chunks writes for a shared file is the
\* sender's original bytes, and it does write them once the metadata and all
\* N >= 1 chunks have been applied, in whatever order they arrived.
C7_AssembledEqualsOriginal ==
    \A metadata \in published_metadata :
        (last.op = "assemble_file_from_chunks" /\ last.file_id = metadata.file_id)
            => /\ last.path # None
                  => temp_files[last.file_id] = File(shared[last.file_id])
               /\ (metadata.total_chunks >= 1 /\ all_applied(metadata))
                  => last.path # None

C7_Witness ==
    /\ last.op = "assemble_file_from_chunks"
    /\ last.path # None
    /\ last.file_id \in DOMAIN shared
    /\ Len(shared[last.file_id]) > CHUNK_SIZE
    /\ temp_files[last.file_id] = File(shared[last.file_id])
    /\ shared[last.file_id][1] # shared[last.file_id][CHUNK_SIZE + 1]

\* C9: /share of a file larger than MAX_FILE_SIZE ends with the error that
\* names the limit, puts nothing on the outbox queue, and neither reads nor
\* encrypts.
C9_TooLargeRejectedBeforeAnyWork ==
    [][(/\ last'.op = "share"
        /\ last'.filepath # ""
        /\ last'.exists
        /\ last'.size > MAX_FILE_SIZE)
          => /\ last'.error = [text |-> "File too large",
                               max_mb |-> MAX_FILE_SIZE \div MiB]
             /\ outbox_queue' = outbox_queue
             /\ last'.reads = 0
             /\ last'.encrypts = 0]_vars

C9_Witness ==
    /\ last.op = "share"
    /\ last.exists
    /\ last.readable
    /\ last.size = MAX_FILE_SIZE + 1
    /\ last.error.text = "File too large"
    /\ buf = <<"Preparing to share", "File too large">>

\* the queue item is a FILE_TRANSFER carrying the metadata of a file of the
\* given size together with chunks 0..total_chunks-1 of that file_id
whole_bundle(item, size) ==
    LET metadata == item.payload.metadata
        chunks == item.payload.chunks
    IN  /\ item.kind = "FILE_TRANSFER"
        /\ metadata.size = size
        /\ metadata.total_chunks * CHUNK_SIZE >= size
        /\ (metadata.total_chunks - 1) * CHUNK_SIZE < size
        /\ Len(chunks) = metadata.total_chunks
        /\ \A i \in 1..Len(chunks) :
              /\ chunks[i].file_id = metadata.file_id
              /\ chunks[i].chunk_num = i - 1

\* C10: a /share that succeeds adds exactly one item to the outbox queue, the
\* whole bundle; a /share that fails adds nothing.
C10_ShareEnqueuesOneWholeBundle ==
    [][last'.op = "share"
          => IF /\ last'.filepath # ""
                /\ last'.exists
                /\ last'.size <= MAX_FILE_SIZE
                /\ last'.readable
             THEN /\ Len(outbox_queue') = Len(outbox_queue) + 1
                  /\ SubSeq(outbox_queue', 1, Len(outbox_queue)) = outbox_queue
                  /\ whole_bundle(outbox_queue'[Len(outbox_queue')], last'.size)
             ELSE outbox_queue' = outbox_queue]_vars

C10_Witness ==
    /\ last.op = "share"
    /\ last.error = NoError
    /\ Len(outbox_queue) = 2
    /\ outbox_queue[2].payload.metadata.file_id = last.file_id
    /\ Len(outbox_queue[2].payload.chunks) = 2
    /\ outbox_queue[2].payload.metadata.total_chunks = 2

----------------------------------------------------------------------------
(* SpecShutdown: start_chat (enchat.py) from the running UI loop to         *)
(* "Session closed", beside the outbox worker thread it started.            *)

Me == "alice"                  \* the nick of this client
ChatTexts == {"m1", "m2"}      \* the chat messages the UI loop may put
ExitPaths == {"exit", "signal", "exception"}   \* how chat_ui.run ends

\* queue.Queue: put adds one unfinished task, get leaves the count alone,
\* task_done takes one off; the operations put and not yet marked done are
\* the queued ones and the one the worker holds.
unfinished_tasks(queue, flight) == Len(queue) + Len(flight)

\* state.outbox_queue.join() returns when no task is unfinished.
\* Variant: it returns as soon as the queue is empty.
queue_join_when_empty(queue, flight) == queue = <<>>

\* Variant: the join also waits for the worker thread, which ends only
\* once the stop flag is set
queue_join_worker_ended(queue, flight) ==
    unfinished_tasks(queue, flight) = 0 /\ out_stop

queue_join(queue, flight) == unfinished_tasks(queue, flight) = 0

\* network.enqueue_msg / network.enqueue_sys: one queued operation per call
enqueue_msg(queue, nick, text) ==
    Append(queue, [kind |-> "MSG", nick |-> nick, payload |-> text])

enqueue_sys(queue, nick, text) ==
    Append(queue, [kind |-> "SYS", nick |-> nick, payload |-> text])

logged(event) == [shutdown_log EXCEPT !.events = Append(@, event)]

\* the UI loop, while it runs, puts a chat message
UiSend(text) ==
    /\ main_pc = "run"
    /\ \A item \in shutdown_log.put : item.payload # text
    /\ outbox_queue' = enqueue_msg(outbox_queue, Me, text)
    /\ shutdown_log' = [shutdown_log EXCEPT
                           !.put = @ \cup {outbox_queue'[Len(outbox_queue')]}]
    /\ buf' = <<>>
    /\ last' = [op |-> "enqueue_msg"]
    /\ UNCHANGED <<receiver_vars, temp_files, relay, shared, main_pc, out_stop,
                   in_flight, store_vars, session_vars,
                   thread_vars>>

\* start_chat, lines 141-145: chat_ui.run returns (/exit, or SHUTDOWN_EVENT
\* set by quit_handler) or raises; either way control enters the finally
StartChatUiEnds(how) ==
    /\ main_pc = "run"
    /\ main_pc' = "finally"
    /\ buf' = <<"Disconnecting...">>
    /\ last' = [op |-> "chat_ui.run", exit |-> how]
    /\ UNCHANGED <<receiver_vars, sender_vars, temp_files, out_stop, in_flight,
                   shutdown_log, store_vars, session_vars,
                   thread_vars>>

\* start_chat, line 148
StartChatEnqueueLeft ==
    /\ main_pc = "finally"
    /\ main_pc' = "join"
    /\ outbox_queue' = enqueue_sys(outbox_queue, Me, "left")
    /\ shutdown_log' = [logged("left enqueued") EXCEPT
                           !.put = @ \cup {outbox_queue'[Len(outbox_queue')]}]
    /\ buf' = <<>>
    /\ last' = [op |-> "enqueue_sys"]
    /\ UNCHANGED <<receiver_vars, temp_files, relay, shared, out_stop,
                   in_flight, store_vars, session_vars,
                   thread_vars>>

\* start_chat, line 151: blocks until join returns
StartChatJoin ==
    /\ main_pc = "join"
    /\ queue_join(outbox_queue, in_flight)
    /\ main_pc' = "stop"
    /\ shutdown_log' = logged("join returned")
    /\ buf' = <<>>
    /\ last' = [op |-> "join"]
    /\ UNCHANGED <<receiver_vars, sender_vars, temp_files, out_stop, in_flight,
                   store_vars, session_vars,
                   thread_vars>>

\* Variant of StartChatStop: the stop flag is set before the join
StartChatStop_before_join ==
    /\ main_pc \in {"join", "stop"}
    /\ main_pc' = IF main_pc = "join" THEN "join" ELSE "closed"
    /\ out_stop' = TRUE
    /\ shutdown_log' = logged("stop set")
    /\ buf' = IF main_pc = "stop" THEN <<"Session closed.">> ELSE <<>>
    /\ last' = [op |-> "out_stop.set"]
    /\ ~out_stop
    /\ UNCHANGED <<receiver_vars, sender_vars, temp_files, in_flight,
                   store_vars, session_vars,
                   thread_vars>>

\* start_chat, lines 154-156
StartChatStop ==
    /\ main_pc = "stop"
    /\ main_pc' = "closed"
    /\ out_stop' = TRUE
    /\ shutdown_log' = logged("stop set")
    /\ buf' = <<"Session closed.">>
    /\ last' = [op |-> "out_stop.set"]
    /\ UNCHANGED <<receiver_vars, sender_vars, temp_files, in_flight,
                   store_vars, session_vars,
                   thread_vars>>

\* network.outbox_worker(out_stop), step by step: while the stop flag is
\* clear it takes the next operation off the queue, ...
WorkerGet ==
    /\ ~out_stop
    /\ in_flight = <<>>
    /\ outbox_queue # <<>>
    /\ in_flight' = <<[item |-> Head(outbox_queue), sent |-> FALSE]>>
    /\ outbox_queue' = Tail(outbox_queue)
    /\ buf' = <<>>
    /\ last' = [op |-> "get"]
    /\ UNCHANGED <<receiver_vars, temp_files, relay, shared, main_pc, out_stop,
                   shutdown_log, store_vars, session_vars,
                   thread_vars>>

\* ... POSTs it to the relay, again after every failure, ...
WorkerPost(ok) ==
    /\ in_flight # <<>>
    /\ ~in_flight[1].sent
    /\ in_flight' = <<[in_flight[1] EXCEPT !.sent = ok]>>
    /\ relay' = IF ok
                THEN relay \cup {[kind |-> in_flight[1].item.kind,
                                  body |-> in_flight[1].item]}
                ELSE relay
    /\ shutdown_log' = [shutdown_log EXCEPT
                           !.attempted = @ \cup {in_flight[1].item}]
    /\ buf' = <<>>
    /\ last' = [op |-> "post", ok |-> ok]
    /\ UNCHANGED <<receiver_vars, temp_files, outbox_queue, shared, main_pc,
                   out_stop, store_vars, session_vars,
                   thread_vars>>

\* ... and marks it done once it is sent.
WorkerTaskDone ==
    /\ in_flight # <<>>
    /\ in_flight[1].sent
    /\ in_flight' = <<>>
    /\ buf' = <<>>
    /\ last' = [op |-> "task_done"]
    /\ UNCHANGED <<receiver_vars, sender_vars, temp_files, main_pc, out_stop,
                   shutdown_log, store_vars, session_vars,
                   thread_vars>>

NextShutdown ==
    \/ \E text \in ChatTexts : UiSend(text)
    \/ \E how \in ExitPaths : StartChatUiEnds(how)
    \/ StartChatEnqueueLeft
    \/ StartChatJoin
    \/ StartChatStop
    \/ WorkerGet
    \/ \E ok \in BOOLEAN : WorkerPost(ok)
    \/ WorkerTaskDone

SpecShutdown == Init /\ [][NextShutdown]_vars

\* SpecShutdown with the scheduling the shutdown relies on: the main thread
\* and the worker thread keep running, and the relay does not refuse a POST
\* for ever.  Nothing obliges the user to leave or to keep typing.
SpecShutdownFair ==
    /\ SpecShutdown
    /\ WF_vars(StartChatEnqueueLeft)
    /\ WF_vars(StartChatJoin)
    /\ WF_vars(StartChatStop)
    /\ WF_vars(WorkerGet)
    /\ WF_vars(WorkerPost(TRUE))
    /\ WF_vars(WorkerTaskDone)

----------------------------------------------------------------------------
(* Session keys: enchat_lib/session_key.py *)

SESSION_KEY_ROTATION_INTERVAL == 300   \* seconds
TicksPerSecond == 2    \* resolution of the clock time.time() reads
MaxSetTick == 3        \* the latest tick at which a session key is stored
MaxNow == (SESSION_KEY_ROTATION_INTERVAL + 2) * TicksPerSecond + MaxSetTick

SessionRooms == {"lobby", "den"}
ValidKeys == {"k1", "k2"}       \* 32 url-safe base64-encoded bytes each
MalformedKeys == {"short", None}   \* anything else Fernet() is handed
SessionKeys == ValidKeys \cup MalformedKeys

\* int(time.time())
whole_seconds(time) == time \div TicksPerSecond

\* Variant of set_session_key: a room that has a key keeps its timestamp
set_session_key_keeping_time(sessions, room, key, time) ==
    [r \in DOMAIN sessions \cup {room} |->
        IF r = room
        THEN [key |-> key,
              timestamp |-> IF room \in DOMAIN sessions
                            THEN sessions[room].timestamp
                            ELSE whole_seconds(time)]
        ELSE sessions[r]]

\* set_session_key(room, key): _active_sessions afterwards
set_session_key(sessions, room, key, time) ==
    [r \in DOMAIN sessions \cup {room} |->
        IF r = room THEN [key |-> key, timestamp |-> whole_seconds(time)]
        ELSE sessions[r]]

\* get_session_key(room)
get_session_key(sessions, room) ==
    IF room \in DOMAIN sessions THEN sessions[room].key ELSE None

\* Variant of should_rotate_key: rotation is due at the interval itself
should_rotate_key_at_interval(sessions, room, time) ==
    IF room \notin DOMAIN sessions THEN TRUE
    ELSE time - sessions[room].timestamp * TicksPerSecond
            >= SESSION_KEY_ROTATION_INTERVAL * TicksPerSecond

\* should_rotate_key(room): (time.time() - timestamp) > 300, in ticks
should_rotate_key(sessions, room, time) ==
    IF room \notin DOMAIN sessions THEN TRUE
    ELSE time - sessions[room].timestamp * TicksPerSecond
            > SESSION_KEY_ROTATION_INTERVAL * TicksPerSecond

\* str.encode(): UTF-8. A message is a sequence of code points; 97 ('a')
\* takes one byte, 233 takes the two bytes 195 169.
CodePoints == {97, 233}
Messages == {<<>>} \cup {<<c>> : c \in CodePoints}
                \cup {<<c, d>> : c \in CodePoints, d \in CodePoints}

RECURSIVE utf8_encode(_)
utf8_encode(message) ==
    IF message = <<>> THEN <<>>
    ELSE (IF Head(message) = 233 THEN <<195, 169>> ELSE <<Head(message)>>)
             \o utf8_encode(Tail(message))

\* bytes.decode(): the message, or UnicodeDecodeError
RECURSIVE utf8_decode(_)
utf8_decode(bytes) ==
    IF bytes = <<>> THEN [ok |-> TRUE, text |-> <<>>]
    ELSE IF Head(bytes) < 128
    THEN LET rest == utf8_decode(Tail(bytes))
         IN  [ok |-> rest.ok, text |-> <<Head(bytes)>> \o rest.text]
    ELSE IF Head(bytes) = 195 /\ Len(bytes) >= 2 /\ bytes[2] = 169
    THEN LET rest == utf8_decode(Tail(Tail(bytes)))
         IN  [ok |-> rest.ok, text |-> <<233>> \o rest.text]
    ELSE [ok |-> FALSE, text |-> <<>>]

\* Fernet(key): ValueError unless the key is 32 url-safe base64-encoded bytes
fernet_accepts(key) == key \in ValidKeys

\* encrypt_with_session(data, session_key), lines 27-30
encrypt_with_session(data, session_key) ==
    IF ~fernet_accepts(session_key)
    THEN [raised |-> TRUE, token |-> corrupt(encrypt(session_key, <<>>))]
    ELSE [raised |-> FALSE, token |-> encrypt(session_key, utf8_encode(data))]

\* Variant of decrypt_with_session: the plaintext of the token is returned
\* without authenticating it against the key
decrypt_with_session_unauthenticated(token, session_key) ==
    LET text == utf8_decode(token.pt)
    IN  [raised |-> FALSE, value |-> IF text.ok THEN text.text ELSE <<>>]

\* decrypt_with_session(token, session_key), lines 32-38: Fernet() is called
\* before the try; InvalidToken and UnicodeDecodeError are caught in it.
\* Returns the string, "" on a caught failure, or raises.
decrypt_with_session(token, session_key) ==
    IF ~fernet_accepts(session_key)
    THEN [raised |-> TRUE, value |-> <<>>]
    ELSE LET decrypted == decrypt(session_key, token)
             text == utf8_decode(decrypted.data)
         IN  [raised |-> FALSE,
              value |-> IF decrypted.ok /\ text.ok THEN text.text ELSE <<>>]

\* encrypt_session_key(session_key, room_key_fernet), lines 40-42
encrypt_session_key(session_key, room_key) == encrypt(room_key, session_key)

\* Variant of decrypt_session_key: the key inside the token is returned
\* without authenticating the token against the room key
decrypt_session_key_unauthenticated(encrypted_key, room_key) ==
    [raised |-> FALSE, value |-> encrypted_key.pt]

\* decrypt_session_key(encrypted_key, room_key_fernet), lines 44-49: the
\* room cipher is built by the caller; every failure is caught in the try
decrypt_session_key(encrypted_key, room_key) ==
    LET decrypted == decrypt(room_key, encrypted_key)
    IN  [raised |-> FALSE,
         value |-> IF decrypted.ok THEN decrypted.data ELSE None]

----------------------------------------------------------------------------
(* The command layer: handle_command (enchat_lib/commands.py).  A line is   *)
(* held as the command word and the words of its argument string, as        *)
(* line[1:].partition(' ') and a split on ' ' give them; an empty word      *)
(* stands for an extra blank.                                               *)

Room == "lobby"
Participants == {"alice", "bob"}

NoLottery == [active |-> FALSE]
NoPoll == [active |-> FALSE]

\* state.lottery_state.get(room), state.poll_state.get(room)
snapshot(map, room, absent) == IF room \in DOMAIN map THEN map[room] ELSE absent

\* str.lower on the words of the model
lower(word) ==
    CASE word = "START" -> "start"
      [] word = "Status" -> "status"
      [] word = "CLOSE" -> "close"
      [] OTHER -> word

\* str.strip: leading and trailing blanks go
RECURSIVE lstrip(_)
lstrip(words) ==
    IF words # <<>> /\ Head(words) = "" THEN lstrip(Tail(words)) ELSE words

RECURSIVE rstrip(_)
rstrip(words) ==
    IF words # <<>> /\ words[Len(words)] = ""
    THEN rstrip(SubSeq(words, 1, Len(words) - 1))
    ELSE words

strip(words) == rstrip(lstrip(words))

\* args.partition(' ')[0]
first_word(args) == IF args = <<>> THEN "" ELSE Head(args)

\* [p.strip().strip('"') for p in args.split('|')]
RECURSIVE split_bar(_)
split_bar(words) ==
    IF words = <<>> THEN << <<>> >>
    ELSE IF Head(words) = "|" THEN << <<>> >> \o split_bar(Tail(words))
    ELSE LET rest == split_bar(Tail(words))
         IN  << <<Head(words)>> \o Head(rest) >> \o Tail(rest)

poll_parts(args) ==
    LET parts == split_bar(args)
    IN  [i \in 1..Len(parts) |-> strip(parts[i])]

\* int(args.strip()): the value, or ValueError
Numeral == ("-1" :> -1) @@ ("0" :> 0) @@ ("1" :> 1) @@ ("2" :> 2) @@ ("3" :> 3)

parsed_int(args) ==
    LET words == strip(args)
    IN  IF Len(words) = 1 /\ words[1] \in DOMAIN Numeral
        THEN [ok |-> TRUE, value |-> Numeral[words[1]]]
        ELSE [ok |-> FALSE, value |-> 0]

\* lottery["starter"] != nick, poll['starter'] != nick: the courtesy check.
\* Variant: anyone passes.
is_starter_anyone(record, nick) == TRUE

is_starter(record, nick) == record.starter = nick

\* Variant of lottery_command: start, draw and cancel act on the local
\* lottery state themselves instead of announcing the intent
lottery_command_direct(args, room, nick, lotteries, winner) ==
    LET sub_cmd == lower(first_word(args))
        lottery == snapshot(lotteries, room, NoLottery)
    IN  IF sub_cmd = "start" /\ lottery = NoLottery
        THEN [msgs |-> <<>>, sys |-> <<>>,
              lotteries |-> [r \in DOMAIN lotteries \cup {room} |->
                                IF r = room
                                THEN [starter |-> nick, participants |-> {}]
                                ELSE lotteries[r]]]
        ELSE IF sub_cmd \in {"draw", "cancel"} /\ lottery # NoLottery
        THEN [msgs |-> <<>>, sys |-> <<>>,
              lotteries |-> [r \in DOMAIN lotteries \ {room} |-> lotteries[r]]]
        ELSE [msgs |-> <<"Lottery Commands">>, sys |-> <<>>,
              lotteries |-> lotteries]

\* handle_command, cmd == "lottery" (lines 121-196). winner is what
\* random.choice draws. Returns the System messages appended, the system
\* texts handed to enqueue_sys, and state.lottery_state afterwards.
lottery_command(args, room, nick, lotteries, winner) ==
    LET sub_cmd == lower(first_word(args))
        lottery == snapshot(lotteries, room, NoLottery)
        said(text) == [msgs |-> <<text>>, sys |-> <<>>, lotteries |-> lotteries]
        sent(text) == [msgs |-> <<>>, sys |-> <<text>>, lotteries |-> lotteries]
    IN  CASE sub_cmd = "start" ->
                IF lottery # NoLottery
                THEN said("A lottery is already running in this room.")
                ELSE sent(<<"LOTTERY_START">>)
          [] sub_cmd = "enter" ->
                IF lottery = NoLottery
                THEN said("There is no active lottery to enter.")
                ELSE IF nick \in lottery.participants
                THEN said("You have already entered the lottery.")
                ELSE sent(<<"LOTTERY_ENTER">>)
          [] sub_cmd = "status" ->
                IF lottery = NoLottery
                THEN said("No lottery is currently active.")
                ELSE said("Lottery Status")
          [] sub_cmd = "draw" ->
                IF lottery = NoLottery
                THEN said("There is no active lottery to draw a winner from.")
                ELSE IF ~is_starter(lottery, nick)
                THEN said("Only the lottery starter can draw a winner.")
                ELSE IF lottery.participants = {}
                THEN said("There are no participants in the lottery.")
                ELSE sent(<<"LOTTERY_WINNER", winner>>)
          [] sub_cmd = "cancel" ->
                IF lottery = NoLottery
                THEN said("There is no active lottery to cancel.")
                ELSE IF ~is_starter(lottery, nick)
                THEN said("Only the lottery starter can cancel it.")
                ELSE sent(<<"LOTTERY_CANCEL">>)
          [] OTHER ->
                [msgs |-> <<"Lottery Commands", "/lottery start",
                            "/lottery enter", "/lottery status",
                            "/lottery draw", "/lottery cancel">>,
                 sys |-> <<>>, lotteries |-> lotteries]

MAX_POLL_OPTIONS == 10

\* handle_command, cmd == "poll" (lines 198-245)
poll_command(args, room, nick, polls) ==
    LET poll == snapshot(polls, room, NoPoll)
        parts == poll_parts(args)
        options == Tail(parts)
        said(text) == [msgs |-> <<text>>, sys |-> <<>>, polls |-> polls]
        sent(text) == [msgs |-> <<>>, sys |-> <<text>>, polls |-> polls]
    IN  IF Len(args) = 1 /\ lower(args[1]) = "status"
        THEN IF poll = NoPoll THEN said("No poll is currently active.")
             ELSE said("Poll Status")
        ELSE IF Len(args) = 1 /\ lower(args[1]) = "close"
        THEN IF poll = NoPoll THEN said("No poll to close.")
             ELSE IF ~is_starter(poll, nick)
             THEN said("Only the poll starter can close it.")
             ELSE sent(<<"POLL_CLOSE">>)
        ELSE IF poll # NoPoll
        THEN said("A poll is already running in this room.")
        ELSE IF Len(parts) < 3
        THEN said("Usage: /poll Question | Option 1 | Option 2")
        ELSE IF Len(options) > MAX_POLL_OPTIONS
        THEN said("Maximum of 10 options allowed.")
        ELSE sent(<<"POLL_START",
                    [question |-> Head(parts), options |-> options]>>)

\* lines 253-257: the choice is an integer from 1 to the number of options.
\* Variant: every choice passes.
valid_choice_any(choice, poll) == TRUE

valid_choice(choice, poll) ==
    choice.ok /\ 1 <= choice.value /\ choice.value <= Len(poll.options)

\* Variant of vote_command: a nick that holds a vote is turned away
vote_command_voting_once(args, room, nick, polls) ==
    LET poll == snapshot(polls, room, NoPoll)
        choice == parsed_int(args)
        said(text) == [msgs |-> <<text>>, sys |-> <<>>, polls |-> polls]
    IN  IF poll = NoPoll THEN said("There is no active poll to vote in.")
        ELSE IF ~valid_choice(choice, poll) THEN said("Invalid choice.")
        ELSE IF \E i \in DOMAIN poll.votes : nick \in poll.votes[i]
        THEN said("You have already voted.")
        ELSE [msgs |-> <<>>, sys |-> << <<"POLL_VOTE", choice.value - 1>> >>,
              polls |-> polls]

\* handle_command, cmd == "vote" (lines 247-263)
vote_command(args, room, nick, polls) ==
    LET poll == snapshot(polls, room, NoPoll)
        choice == parsed_int(args)
        said(text) == [msgs |-> <<text>>, sys |-> <<>>, polls |-> polls]
    IN  IF poll = NoPoll THEN said("There is no active poll to vote in.")
        ELSE IF ~valid_choice(choice, poll) THEN said("Invalid choice.")
        ELSE [msgs |-> <<>>, sys |-> << <<"POLL_VOTE", choice.value - 1>> >>,
              polls |-> polls]

\* Variant of clean_chat_command: the warning is shown and the cleanup goes
\* ahead without the confirmation
clean_chat_command_unconfirmed(args, is_public, roster) ==
    IF is_public
    THEN [msgs |-> <<"Cannot clean public rooms.">>, sys |-> <<>>,
          cleared |-> FALSE]
    ELSE [msgs |-> <<"Chat Cleaned">>, sys |-> << <<"ROOM_CLEANUP">> >>,
          cleared |-> TRUE]

\* handle_command, cmd == "clean-chat" (lines 32-66)
clean_chat_command(args, is_public, roster) ==
    LET warned == Cardinality(DOMAIN roster) > 1
        warnings == IF warned
                    THEN <<"WARNING", "Are you sure?",
                           "Type '/clean-chat confirm' to proceed.">>
                    ELSE <<>>
    IN  IF is_public
        THEN [msgs |-> <<"Cannot clean public rooms.">>, sys |-> <<>>,
              cleared |-> FALSE]
        ELSE IF warned /\ strip(args) # <<"confirm">>
        THEN [msgs |-> warnings, sys |-> <<>>, cleared |-> FALSE]
        ELSE [msgs |-> <<"Chat Cleaned">>, sys |-> << <<"ROOM_CLEANUP">> >>,
              cleared |-> TRUE]

\* sorted(list(state.room_participants.keys())), one buffer line per user
NickRank == ("alice" :> 1) @@ ("bob" :> 2)

RECURSIVE who_lines(_, _)
who_lines(users, nick) ==
    IF users = {} THEN <<>>
    ELSE LET u == CHOOSE x \in users : \A y \in users : NickRank[x] <= NickRank[y]
         IN  <<IF u = nick THEN "(You)" ELSE "online">>
                 \o who_lines(users \ {u}, nick)

\* handle_command, cmd == "who" (lines 68-77)
who_command(nick, roster, time) ==
    LET updated == [n \in DOMAIN roster \cup {nick} |->
                       IF n = nick THEN time ELSE roster[n]]
    IN  [roster |-> updated,
         msgs |-> <<"=== ONLINE ===">> \o who_lines(DOMAIN updated, nick)]

\* handle_command, cmd == "security" (lines 265-317)
security_command(is_public, sessions, room) ==
    IF is_public THEN <<"PUBLIC ROOM SECURITY", "Not available in public rooms">>
    ELSE IF get_session_key(sessions, room) # None
    THEN <<"SECURITY OVERVIEW", "Active">>
    ELSE <<"SECURITY OVERVIEW", "Inactive">>

\* lines 331-333 read info['metadata'], info['complete'], for a file that is
\* not complete info['chunks_received'] and info['total_chunks'], and then
\* meta['size']: KeyError on a missing key, TypeError on a metadata of None
files_line_reads(info) ==
    /\ "metadata" \in DOMAIN info
    /\ info.complete \/ "total_chunks" \in DOMAIN info
    /\ info.metadata # NoMetadata

\* handle_command, cmd == "files" (lines 325-336): a record whose line cannot
\* be read raises; the lines of the records listed before it are left out
files_command(files) ==
    IF DOMAIN files = {}
    THEN [msgs |-> <<"No files available for download.">>, raised |-> FALSE]
    ELSE IF \E f \in DOMAIN files : ~files_line_reads(files[f])
    THEN [msgs |-> <<"AVAILABLE FILES">>, raised |-> TRUE]
    ELSE [msgs |-> <<"AVAILABLE FILES">>
                      \o [i \in 1..Cardinality(DOMAIN files) |-> "file"],
          raised |-> FALSE]

\* Variant of download_command: the announcement is made before the copy
download_command_announcing_first(args, files, chunks, temp, key, saved) ==
    LET words == SelectSeq(args, LAMBDA w : w # "")
        file_id == Head(words)
        said(text) == [msgs |-> <<text>>, sys |-> <<>>, temp |-> temp,
                       raised |-> FALSE]
        r == assemble_file_from_chunks(files, chunks, temp, file_id, key)
        removed == [r.temp EXCEPT ![file_id] = NoFile]
    IN  IF words = <<>> THEN said("Usage: /download <file_id>")
        ELSE IF file_id \notin DOMAIN files THEN said("File ID not found.")
        ELSE IF ~files[file_id].complete
        THEN IF "total_chunks" \in DOMAIN files[file_id]
             THEN said("File not complete")
             ELSE [msgs |-> <<>>, sys |-> <<>>, temp |-> temp, raised |-> TRUE]
        ELSE IF r.error # None
        THEN [msgs |-> <<"Download failed">>, sys |-> <<>>, temp |-> r.temp,
              raised |-> FALSE]
        ELSE [msgs |-> <<IF saved THEN "Download Complete" ELSE "Save failed">>,
              sys |-> << <<"FILE_DOWNLOAD", file_id>> >>, temp |-> removed,
              raised |-> FALSE]

\* handle_command, cmd == "download" (lines 338-405). saved is whether
\* shutil.copy2 succeeds. The "not complete" message of line 360 reads
\* info['total_chunks'] and raises KeyError on a record without it.
download_command(args, files, chunks, temp, key, saved) ==
    LET words == SelectSeq(args, LAMBDA w : w # "")
        file_id == Head(words)
        said(text) == [msgs |-> <<text>>, sys |-> <<>>, temp |-> temp,
                       raised |-> FALSE]
        r == assemble_file_from_chunks(files, chunks, temp, file_id, key)
        removed == [r.temp EXCEPT ![file_id] = NoFile]
    IN  IF words = <<>> THEN said("Usage: /download <file_id>")
        ELSE IF file_id \notin DOMAIN files THEN said("File ID not found.")
        ELSE IF ~files[file_id].complete
        THEN IF "total_chunks" \in DOMAIN files[file_id]
             THEN said("File not complete")
             ELSE [msgs |-> <<>>, sys |-> <<>>, temp |-> temp, raised |-> TRUE]
        ELSE IF r.error # None
        THEN [msgs |-> <<"Download failed">>, sys |-> <<>>, temp |-> r.temp,
              raised |-> FALSE]
        ELSE IF saved
        THEN [msgs |-> <<"Download Complete">>,
              sys |-> << <<"FILE_DOWNLOAD", file_id>> >>, temp |-> removed,
              raised |-> FALSE]
        ELSE [msgs |-> <<"Save failed">>, sys |-> <<>>, temp |-> removed,
              raised |-> FALSE]

\* enqueue_sys once for every text
RECURSIVE enqueue_all(_, _, _)
enqueue_all(queue, nick, texts) ==
    IF texts = <<>> THEN queue
    ELSE enqueue_all(enqueue_sys(queue, nick, Head(texts)), nick, Tail(texts))

\* what one call of handle_command leaves behind: the return value, the
\* System messages appended, whether buf.clear() ran, the texts handed to
\* enqueue_sys, and the state it may write. winner is the draw of
\* random.choice; ok is the outcome of the call's one outside action (the
\* health request, the link broker, the clipboard, the copy of the file).
command(line, room, nick, is_public, winner, ok) ==
    LET quiet == [ret |-> None, msgs |-> <<>>, cleared |-> FALSE, sys |-> <<>>,
                  raised |-> FALSE,
                  roster |-> room_participants,
                  notifications |-> notifications_enabled,
                  link |-> last_generated_link,
                  lotteries |-> lottery_state, polls |-> poll_state,
                  temp |-> temp_files]
        said(msgs) == [quiet EXCEPT !.msgs = msgs]
        cmd == line.cmd
        args == line.args
    IN  CASE cmd = "exit" -> [quiet EXCEPT !.ret = "exit"]
          [] cmd = "clear" ->
                [quiet EXCEPT !.msgs = <<"Message buffer cleared.">>,
                              !.cleared = TRUE]
          [] cmd = "clean-chat" ->
                LET r == clean_chat_command(args, is_public, room_participants)
                IN  [quiet EXCEPT !.msgs = r.msgs, !.sys = r.sys,
                                  !.cleared = r.cleared]
          [] cmd = "who" ->
                LET r == who_command(nick, room_participants, now)
                IN  [quiet EXCEPT !.msgs = r.msgs, !.roster = r.roster]
          [] cmd = "help" -> said(<<"=== In-Chat Commands ===", "=== CLI Commands ===">>)
          [] cmd = "stats" -> said(<<"Messages - Sent, Received, Total">>)
          [] cmd = "lottery" ->
                LET r == lottery_command(args, room, nick, lottery_state, winner)
                IN  [quiet EXCEPT !.msgs = r.msgs, !.sys = r.sys,
                                  !.lotteries = r.lotteries]
          [] cmd = "poll" ->
                LET r == poll_command(args, room, nick, poll_state)
                IN  [quiet EXCEPT !.msgs = r.msgs, !.sys = r.sys,
                                  !.polls = r.polls]
          [] cmd = "vote" ->
                LET r == vote_command(args, room, nick, poll_state)
                IN  [quiet EXCEPT !.msgs = r.msgs, !.sys = r.sys,
                                  !.polls = r.polls]
          [] cmd = "security" ->
                said(security_command(is_public, active_sessions, room))
          [] cmd = "notifications" ->
                [quiet EXCEPT !.msgs = <<"Desktop notifications">>,
                              !.notifications = ~notifications_enabled]
          [] cmd = "files" ->
                LET r == files_command(available_files)
                IN  [quiet EXCEPT !.msgs = r.msgs, !.raised = r.raised]
          [] cmd = "download" ->
                LET r == download_command(args, available_files, file_chunks,
                                          temp_files, RoomKey, ok)
                IN  [quiet EXCEPT !.msgs = r.msgs, !.sys = r.sys, !.temp = r.temp,
                                  !.raised = r.raised]
          [] cmd = "server" ->
                said(<<"Server", IF ok THEN "Online" ELSE "Offline/Unreachable">>)
          [] cmd = "share-room" ->
                IF is_public THEN said(<<"Cannot share a public room.">>)
                ELSE IF ~ok
                THEN said(<<"Generating secure room link...",
                            "Failed to create share link.">>)
                ELSE [quiet EXCEPT !.msgs = <<"Generating secure room link...",
                                              "Room Invitation Link">>,
                                   !.link = "https://broker/join#id:key"]
          [] cmd = "copy-link" ->
                IF last_generated_link = ""
                THEN said(<<"No link has been generated yet.">>)
                ELSE IF ok THEN said(<<"Link copied to clipboard!">>)
                ELSE said(<<"Could not copy to clipboard.",
                            "Please install 'pyperclip'">>)
          [] OTHER -> said(<<"Unknown command">>)

\* handle_command(line, room, nick, server, f, buf, secret, is_public, is_tor)
\* for every command but /share
handle_command(line, room, nick, is_public, winner, ok) ==
    LET r == command(line, room, nick, is_public, winner, ok)
    IN  /\ line.cmd # "share"
        /\ outbox_queue' = enqueue_all(outbox_queue, nick, r.sys)
        /\ buf' = r.msgs
        /\ room_participants' = r.roster
        /\ notifications_enabled' = r.notifications
        /\ last_generated_link' = r.link
        /\ lottery_state' = r.lotteries
        /\ poll_state' = r.polls
        /\ temp_files' = r.temp
        /\ last' = [op |-> "handle_command", cmd |-> line.cmd,
                    args |-> line.args, nick |-> nick, is_public |-> is_public,
                    ret |-> r.ret, cleared |-> r.cleared, raised |-> r.raised]
        /\ UNCHANGED <<receiver_vars, relay, shared, shutdown_vars, session_vars,
                   thread_vars>>

----------------------------------------------------------------------------
(* SpecCommands: the UI loop hands handle_command one line after another,   *)
(* while the listener applies the envelopes it hears to the shared state    *)
(* and the worker empties the queue.                                        *)

MaxOutbox == 1        \* operations waiting on the queue when a line is handled

\* "Q" followed by n options, the arguments of a poll creation
RECURSIVE PollArgs(_)
PollArgs(n) == IF n = 0 THEN <<"Q">> ELSE PollArgs(n - 1) \o <<"|", "A">>

Lines ==
    [cmd : {"exit", "clear", "who", "help", "stats", "security",
            "notifications", "files", "server", "share-room", "copy-link",
            "dance"},
     args : {<<>>}]
    \cup [cmd : {"clean-chat"}, args : {<<>>, <<"confirm">>}]
    \cup [cmd : {"lottery"},
          args : {<<>>, <<"start">>, <<"START">>, <<"", "start">>, <<"enter">>,
                  <<"status">>, <<"draw">>, <<"cancel">>}]
    \cup [cmd : {"poll"},
          args : {<<"status">>, <<"close">>, <<"CLOSE">>, <<"close", "">>,
                  PollArgs(0), PollArgs(1), PollArgs(2),
                  PollArgs(MAX_POLL_OPTIONS), PollArgs(MAX_POLL_OPTIONS + 1)}]
    \cup [cmd : {"vote"},
          args : {<<>>, <<"x">>, <<"0">>, <<"1">>, <<"", "2">>, <<"3">>, <<"-1">>}]
    \cup [cmd : {"download"}, args : {<<>>, <<"f1">>}]

\* the calls that read is_public, and the ones that act outside the program
PublicRead == {"clean-chat", "security", "share-room"}
OutsideAct == {"server", "share-room", "copy-link", "download"}

\* Variant of Winners: the draw is made among the nicks of the room
Winners_of_room(line) ==
    LET lottery == snapshot(lottery_state, Room, NoLottery)
    IN  IF line.cmd = "lottery" /\ lower(first_word(line.args)) = "draw"
           /\ lottery # NoLottery /\ lottery.participants # {}
        THEN Participants
        ELSE {None}

\* what random.choice(list(lottery["participants"])) may return
Winners(line) ==
    LET lottery == snapshot(lottery_state, Room, NoLottery)
    IN  IF line.cmd = "lottery" /\ lower(first_word(line.args)) = "draw"
           /\ lottery # NoLottery /\ lottery.participants # {}
        THEN lottery.participants
        ELSE {None}

Command ==
    \E line \in Lines :
        \E is_public \in (IF line.cmd \in PublicRead THEN BOOLEAN ELSE {FALSE}),
           winner \in Winners(line),
           ok \in (IF line.cmd \in OutsideAct THEN BOOLEAN ELSE {TRUE}) :
            /\ Len(outbox_queue) < MaxOutbox
            /\ handle_command(line, Room, Me, is_public, winner, ok)

\* /share of an empty path and of a path that holds nothing
CommandShare ==
    \E filepath \in {"", "a.txt"}, file_id \in ShareIds :
        /\ Len(outbox_queue) < MaxOutbox
        /\ share(filepath, Missing, file_id, Me)

\* The listener, on LOTTERY_START / LOTTERY_ENTER / LOTTERY_WINNER /
\* LOTTERY_CANCEL from sender: state.lottery_state afterwards
lottery_applied(lotteries, room, sender, text) ==
    CASE text[1] = "LOTTERY_START" /\ room \notin DOMAIN lotteries ->
            [r \in DOMAIN lotteries \cup {room} |->
                IF r = room THEN [starter |-> sender, participants |-> {}]
                ELSE lotteries[r]]
      [] text[1] = "LOTTERY_ENTER" /\ room \in DOMAIN lotteries ->
            [lotteries EXCEPT ![room].participants = @ \cup {sender}]
      [] text[1] \in {"LOTTERY_WINNER", "LOTTERY_CANCEL"} ->
            [r \in DOMAIN lotteries \ {room} |-> lotteries[r]]
      [] OTHER -> lotteries

\* Variant of poll_applied: a vote joins the option's set and the voter's
\* earlier vote stays where it was
poll_applied_keeping_votes(polls, room, sender, text) ==
    CASE text[1] = "POLL_START" /\ room \notin DOMAIN polls ->
            [r \in DOMAIN polls \cup {room} |->
                IF r = room
                THEN [starter |-> sender, question |-> text[2].question,
                      options |-> text[2].options,
                      votes |-> [i \in 0..(Len(text[2].options) - 1) |-> {}]]
                ELSE polls[r]]
      [] text[1] = "POLL_VOTE" /\ room \in DOMAIN polls ->
            IF text[2] \in DOMAIN polls[room].votes
            THEN [polls EXCEPT ![room].votes[text[2]] = @ \cup {sender}]
            ELSE polls
      [] text[1] = "POLL_CLOSE" ->
            [r \in DOMAIN polls \ {room} |-> polls[r]]
      [] OTHER -> polls

\* The listener, on POLL_START / POLL_VOTE / POLL_CLOSE from sender:
\* state.poll_state afterwards
poll_applied(polls, room, sender, text) ==
    CASE text[1] = "POLL_START" /\ room \notin DOMAIN polls ->
            [r \in DOMAIN polls \cup {room} |->
                IF r = room
                THEN [starter |-> sender, question |-> text[2].question,
                      options |-> text[2].options,
                      votes |-> [i \in 0..(Len(text[2].options) - 1) |-> {}]]
                ELSE polls[r]]
      [] text[1] = "POLL_VOTE" /\ room \in DOMAIN polls ->
            IF text[2] \in DOMAIN polls[room].votes
            THEN [polls EXCEPT ![room].votes =
                     [i \in DOMAIN @ |->
                         IF i = text[2] THEN @[i] \cup {sender}
                         ELSE @[i] \ {sender}]]
            ELSE polls
      [] text[1] = "POLL_CLOSE" ->
            [r \in DOMAIN polls \ {room} |-> polls[r]]
      [] OTHER -> polls

\* The listener, on a presence-bearing message from sender
presence_applied(roster, sender, time) ==
    [n \in DOMAIN roster \cup {sender} |-> IF n = sender THEN time ELSE roster[n]]

\* the envelopes the listener hears: any room-key holder may publish any
HeardEnvelopes ==
    [sender : Participants,
     text : {<<"joined">>, <<"LOTTERY_START">>, <<"LOTTERY_ENTER">>,
             <<"POLL_START", [question |-> <<"Q">>, options |-> << <<"A">>, <<"B">> >>]>>}]
    \cup [sender : {"bob"},
          text : {<<"LOTTERY_WINNER", "bob">>, <<"LOTTERY_CANCEL">>,
                  <<"POLL_CLOSE">>}]

Listen ==
    \E envelope \in HeardEnvelopes :
        /\ lottery_state' = lottery_applied(lottery_state, Room,
                                            envelope.sender, envelope.text)
        /\ poll_state' = poll_applied(poll_state, Room,
                                      envelope.sender, envelope.text)
        /\ room_participants' = presence_applied(room_participants,
                                                 envelope.sender, now)
        /\ buf' = <<>>
        /\ last' = [op |-> "listen"]
        /\ UNCHANGED <<receiver_vars, sender_vars, temp_files, shutdown_vars,
                       notifications_enabled, last_generated_link, session_vars,
                   thread_vars>>

\* the worker POSTs the operation at the head of the queue; what the relay
\* then holds is part of what the listener may hear
Posted ==
    /\ outbox_queue # <<>>
    /\ outbox_queue' = Tail(outbox_queue)
    /\ buf' = <<>>
    /\ last' = [op |-> "outbox_worker"]
    /\ UNCHANGED <<receiver_vars, temp_files, relay, shared, beyond_transfer>>

NextCommands ==
    Command \/ CommandShare \/ Listen \/ Posted

SpecCommands == Init /\ [][NextCommands]_vars

----------------------------------------------------------------------------
(* SpecCrypto: the session-layer functions of session_key.py applied to     *)
(* every message, key and token of the model.                               *)

OtherRoomKey == "another room"

\* the tokens decrypt_with_session may be handed: session tokens of every
\* message under every valid key, one of them modified, one whose plaintext
\* is not UTF-8, and one made under the room key
SessionTokens ==
    {encrypt(k, utf8_encode(m)) : k \in ValidKeys, m \in Messages}
        \cup {corrupt(encrypt("k1", <<97>>)), encrypt("k1", <<195>>),
              encrypt(RoomKey, <<97>>)}

\* the tokens decrypt_session_key may be handed
KeyTokens ==
    {encrypt_session_key(k, r) : k \in SessionKeys, r \in {RoomKey, OtherRoomKey}}
        \cup {corrupt(encrypt_session_key("k1", RoomKey))}

SessionRoundTrip(message, key, other) ==
    LET sealed == encrypt_with_session(message, key)
        opened == decrypt_with_session(sealed.token, other)
    IN  /\ ~sealed.raised
        /\ last' = [op |-> "round_trip", message |-> message, key |-> key,
                    other |-> other, raised |-> opened.raised,
                    value |-> opened.value]
        /\ buf' = <<>>
        /\ UNCHANGED <<receiver_vars, sender_vars, temp_files, beyond_transfer>>

DecryptWithSession(token, key) ==
    LET opened == decrypt_with_session(token, key)
    IN  /\ last' = [op |-> "decrypt_with_session", token |-> token,
                    key |-> key, raised |-> opened.raised,
                    value |-> opened.value]
        /\ buf' = <<>>
        /\ UNCHANGED <<receiver_vars, sender_vars, temp_files, beyond_transfer>>

DecryptSessionKey(encrypted_key, room_key) ==
    LET opened == decrypt_session_key(encrypted_key, room_key)
    IN  /\ last' = [op |-> "decrypt_session_key", token |-> encrypted_key,
                    key |-> room_key, raised |-> opened.raised,
                    value |-> opened.value]
        /\ buf' = <<>>
        /\ UNCHANGED <<receiver_vars, sender_vars, temp_files, beyond_transfer>>

\* encrypt_session_key on the sender, decrypt_session_key on a receiver
\* holding the room key `other`.  A session key is any bytes value.
SessionKeyRoundTrip(session_key, room_key, other) ==
    LET sealed == encrypt_session_key(session_key, room_key)
        opened == decrypt_session_key(sealed, other)
    IN  /\ last' = [op |-> "key_round_trip", session_key |-> session_key,
                    key |-> room_key, other |-> other,
                    raised |-> opened.raised, value |-> opened.value]
        /\ buf' = <<>>
        /\ UNCHANGED <<receiver_vars, sender_vars, temp_files, beyond_transfer>>

NextCrypto ==
    \/ \E m \in Messages, k \in ValidKeys, other \in SessionKeys :
           SessionRoundTrip(m, k, other)
    \/ \E k \in SessionKeys \ {None}, r \in {RoomKey, OtherRoomKey},
          other \in {RoomKey, OtherRoomKey} : SessionKeyRoundTrip(k, r, other)
    \/ \E token \in SessionTokens, k \in SessionKeys : DecryptWithSession(token, k)
    \/ \E token \in KeyTokens, r \in {RoomKey, OtherRoomKey} :
           DecryptSessionKey(token, r)

SpecCrypto == Init /\ [][NextCrypto]_vars

(* SpecSession: the session key store of session_key.py under a clock.      *)

SetSessionKey(room, key) ==
    /\ now <= MaxSetTick
    /\ active_sessions' = set_session_key(active_sessions, room, key, now)
    /\ last' = [op |-> "set_session_key", room |-> room, key |-> key,
                replaced |-> /\ room \in DOMAIN active_sessions
                             /\ active_sessions[room].key # key]
    /\ buf' = <<>>
    /\ UNCHANGED <<receiver_vars, sender_vars, temp_files, shutdown_vars,
                   store_vars, now, thread_vars>>

GetSessionKey(room) ==
    /\ last' = [op |-> "get_session_key", room |-> room,
                result |-> get_session_key(active_sessions, room)]
    /\ buf' = <<>>
    /\ UNCHANGED <<receiver_vars, sender_vars, temp_files, beyond_transfer>>

ShouldRotateKey(room) ==
    /\ last' = [op |-> "should_rotate_key", room |-> room,
                result |-> should_rotate_key(active_sessions, room, now)]
    /\ buf' = <<>>
    /\ UNCHANGED <<receiver_vars, sender_vars, temp_files, beyond_transfer>>

Tick ==
    /\ now < MaxNow
    /\ now' = now + 1
    /\ last' = [op |-> "tick"]
    /\ buf' = <<>>
    /\ UNCHANGED <<receiver_vars, sender_vars, temp_files, shutdown_vars,
                   store_vars, active_sessions, thread_vars>>

NextSession ==
    \/ \E room \in SessionRooms, key \in ValidKeys : SetSessionKey(room, key)
    \/ \E room \in SessionRooms : GetSessionKey(room)
    \/ \E room \in SessionRooms : ShouldRotateKey(room)
    \/ Tick

SpecSession == Init /\ [][NextSession]_vars

----------------------------------------------------------------------------
(* Properties of the session layer, checked under SpecCrypto / SpecSession *)

\* C17: decrypt_with_session and decrypt_session_key never raise, whatever
\* token and key they are handed; a failed decryption returns "" or None.
C17_DecryptNeverRaises ==
    last.op \in {"decrypt_with_session", "decrypt_session_key"} => ~last.raised

\* C18: a message encrypted with a valid session key decrypts to itself
\* under that key, and to the failure result "" under every other valid key.
C18_SessionRoundTrip ==
    (last.op = "round_trip" /\ last.other \in ValidKeys) =>
        /\ ~last.raised
        /\ last.other = last.key => last.value = last.message
        /\ last.other # last.key => last.value = <<>>

C18_Witness ==
    /\ last.op = "round_trip"
    /\ last.message = <<233, 97>>
    /\ last.other = last.key
    /\ last.value = <<233, 97>>

\* C19: should_rotate_key(room) is true exactly when the room has no stored
\* session key or more than 300 seconds have passed since the stored
\* timestamp.
C19_RotateIffAbsentOrOlder ==
    last.op = "should_rotate_key" =>
        (last.result <=>
            \/ last.room \notin DOMAIN active_sessions
            \/ now > (active_sessions[last.room].timestamp
                         + SESSION_KEY_ROTATION_INTERVAL) * TicksPerSecond)

C19_Witness ==
    /\ last.op = "should_rotate_key"
    /\ last.room \in DOMAIN active_sessions
    /\ now = (active_sessions[last.room].timestamp
                 + SESSION_KEY_ROTATION_INTERVAL) * TicksPerSecond
    /\ ~last.result

\* C20: set_session_key(room, k) leaves k as the room's session key with the
\* second of the call as its creation time, whatever the room held before,
\* and leaves the entry of every other room as it was.
C20_SetReplacesOneRoom ==
    [][last'.op = "set_session_key" =>
          LET room == last'.room
              stored == active_sessions'[room].timestamp
          IN  /\ get_session_key(active_sessions', room) = last'.key
              /\ stored * TicksPerSecond <= now
              /\ now < (stored + 1) * TicksPerSecond
              /\ DOMAIN active_sessions' = DOMAIN active_sessions \cup {room}
              /\ \A r \in DOMAIN active_sessions \ {room} :
                     active_sessions'[r] = active_sessions[r]
      ]_vars

C20_Witness ==
    /\ last.op = "set_session_key"
    /\ last.replaced
    /\ DOMAIN active_sessions = SessionRooms
    /\ active_sessions[last.room].timestamp = 1
    /\ get_session_key(active_sessions, last.room) = last.key

\* C21: a session key encrypted under a room key decrypts to itself under
\* that room key, and to None under a different room key.
C21_SessionKeyRoundTrip ==
    last.op = "key_round_trip" =>
        /\ ~last.raised
        /\ last.other = last.key => last.value = last.session_key
        /\ last.other # last.key => last.value = None

C21_Witness ==
    /\ last.op = "key_round_trip"
    /\ last.session_key = "k2"
    /\ last.other = last.key
    /\ last.value = "k2"

----------------------------------------------------------------------------
(* Properties of the command layer, checked under SpecCommands *)

\* the steps that are one call of handle_command
CommandStep == last'.op \in {"handle_command", "share"}

\* the operation a step put on the outbox queue, if it put one
Enqueued ==
    /\ Len(outbox_queue') = Len(outbox_queue) + 1
    /\ SubSeq(outbox_queue', 1, Len(outbox_queue)) = outbox_queue

\* C13: no call of handle_command changes state.lottery_state,
\* state.poll_state, state.available_files or state.file_chunks; a lottery,
\* poll or vote command changes nothing but the buffer and the queue, where
\* it either appends messages or puts one system envelope.
C13_CommandsLeaveSharedState ==
    [][CommandStep =>
          /\ UNCHANGED <<lottery_state, poll_state, available_files, file_chunks>>
          /\ (last'.op = "handle_command" /\ last'.cmd \in {"lottery", "poll", "vote"}) =>
                /\ UNCHANGED <<temp_files, relay, room_participants,
                               notifications_enabled, last_generated_link,
                               active_sessions>>
                /\ \/ outbox_queue' = outbox_queue /\ buf' # <<>>
                   \/ /\ Enqueued
                      /\ outbox_queue'[Len(outbox_queue')].kind = "SYS"
                      /\ buf' = <<>>
      ]_vars

C13_Witness ==
    /\ last.op = "handle_command"
    /\ last.cmd = "lottery"
    /\ Room \in DOMAIN lottery_state
    /\ Room \in DOMAIN poll_state
    /\ outbox_queue # <<>>
    /\ outbox_queue[1].payload = <<"LOTTERY_ENTER">>

\* C14: no call of handle_command adds, removes or updates an entry of
\* state.room_participants.
C14_CommandsLeaveRoster ==
    [][CommandStep => UNCHANGED room_participants]_vars

\* the local preconditions of the lottery, poll and vote commands, read off
\* the state the command finds
LotteryActive == Room \in DOMAIN lottery_state
PollActive == Room \in DOMAIN poll_state
Bars(args) == Len(SelectSeq(args, LAMBDA w : w = "|"))

FailsPrecondition(cmd, args, nick) ==
    \/ /\ cmd = "lottery"
       /\ \/ first_word(args) \in {"start", "START"} /\ LotteryActive
          \/ /\ first_word(args) = "enter"
             /\ (LotteryActive => nick \in lottery_state[Room].participants)
          \/ /\ first_word(args) = "draw"
             /\ (LotteryActive => \/ lottery_state[Room].starter # nick
                                  \/ lottery_state[Room].participants = {})
          \/ /\ first_word(args) = "cancel"
             /\ (LotteryActive => lottery_state[Room].starter # nick)
    \/ /\ cmd = "poll"
       /\ IF args \in {<<"close">>, <<"CLOSE">>}
          THEN PollActive => poll_state[Room].starter # nick
          ELSE /\ args # <<"status">>
               /\ (PollActive \/ Bars(args) < 2 \/ Bars(args) > 10)
    \/ /\ cmd = "vote"
       /\ \/ ~PollActive
          \/ /\ strip(args) # <<>>
             /\ Head(strip(args)) \in DOMAIN Numeral
             /\ \/ Numeral[Head(strip(args))] < 1
                \/ Numeral[Head(strip(args))] > Len(poll_state[Room].options)

\* C15: a lottery, poll or vote command that fails its local precondition
\* appends at least one System message and puts nothing on the outbox queue.
C15_FailedPreconditionOnlyMessages ==
    [][(last'.op = "handle_command"
           /\ FailsPrecondition(last'.cmd, last'.args, last'.nick)) =>
          /\ Len(buf') >= 1
          /\ outbox_queue' = outbox_queue
      ]_vars

C15_Witness ==
    /\ last.op = "handle_command"
    /\ last.cmd = "vote"
    /\ last.args = <<"3">>
    /\ PollActive
    /\ buf = <<"Invalid choice.">>
    /\ outbox_queue = <<>>

\* C16: handle_command puts LOTTERY_WINNER or LOTTERY_CANCEL on the queue
\* only when the local nick is the starter of the room's lottery in the
\* local state, and POLL_CLOSE only when it is the starter of the room's poll.
C16_OnlyStarterResolves ==
    [][(last'.op = "handle_command" /\ Enqueued) =>
          LET text == outbox_queue'[Len(outbox_queue')].payload
          IN  /\ text[1] \in {"LOTTERY_WINNER", "LOTTERY_CANCEL"} =>
                    LotteryActive /\ lottery_state[Room].starter = last'.nick
              /\ text[1] = "POLL_CLOSE" =>
                    PollActive /\ poll_state[Room].starter = last'.nick
      ]_vars

C16_Witness ==
    /\ last.op = "handle_command"
    /\ last.cmd = "poll"
    /\ last.args = <<"CLOSE">>
    /\ outbox_queue # <<>>
    /\ outbox_queue[1].payload = <<"POLL_CLOSE">>
    /\ PollActive
    /\ poll_state[Room].starter = Me

----------------------------------------------------------------------------
(* Properties of the shutdown path, checked under SpecShutdown *)

ShutdownOrder == <<"left enqueued", "join returned", "stop set">>

\* C11: on every exit path of start_chat the 'left' message is enqueued,
\* then the join returns, then the stop flag is set, in this order; the
\* stop flag is never set while an operation of the queue is unfinished.
C11_LeftThenJoinThenStop ==
    /\ shutdown_log.events = SubSeq(ShutdownOrder, 1, Len(shutdown_log.events))
    /\ out_stop => /\ shutdown_log.events = ShutdownOrder
                   /\ unfinished_tasks(outbox_queue, in_flight) = 0
    /\ main_pc = "closed" => out_stop

C11_Witness ==
    /\ main_pc = "closed"
    /\ out_stop
    /\ last.op = "out_stop.set"
    /\ Cardinality(shutdown_log.put) = 3

\* C12: once the join of the shutdown path has returned, every operation
\* put on the outbox queue, the 'left' message among them, has been taken
\* by the worker and POSTed at least once.
C12_JoinReturnsAfterAllAttempted ==
    Len(shutdown_log.events) >= 2 =>
        /\ shutdown_log.put \subseteq shutdown_log.attempted
        /\ \E item \in shutdown_log.attempted :
               item.kind = "SYS" /\ item.payload = "left"

C12_Witness ==
    /\ last.op = "join"
    /\ Cardinality(shutdown_log.put) = 3
    /\ Cardinality(relay) = 3

\* C29: with a worker that keeps running and a relay that accepts a POST in
\* the end, start_chat, once in its finally block, reaches the stop flag and
\* closes; it passes the join only when no operation put on the queue, the
\* 'left' message among them, is still queued or held by the worker.
C29_ShutdownTerminates ==
    /\ (main_pc = "finally") ~> (main_pc = "closed" /\ out_stop)
    /\ [](main_pc \in {"stop", "closed"} =>
             /\ unfinished_tasks(outbox_queue, in_flight) = 0
             /\ \E item \in shutdown_log.put :
                    item.kind = "SYS" /\ item.payload = "left")

C29_Witness ==
    /\ main_pc = "closed"
    /\ out_stop
    /\ shutdown_log.events = ShutdownOrder
    /\ Cardinality(shutdown_log.put) = 1
    /\ Cardinality(relay) = 1

----------------------------------------------------------------------------
(* Link sharing: enchat_lib/link_sharing.py.  Credentials are sequences of  *)
(* code points (97 'a', 124 '|'); a share URL is a sequence of pieces in    *)
(* which the marker "/join#" and the colon ":" are pieces of their own.     *)

Bar == 124   \* ord('|')

\* str.split(sep, maxsplit); maxsplit = -1 splits at every separator
RECURSIVE str_split(_, _, _)
str_split(text, sep, maxsplit) ==
    IF text = <<>> THEN << <<>> >>
    ELSE IF Head(text) = sep /\ maxsplit # 0
    THEN << <<>> >> \o str_split(Tail(text), sep, maxsplit - 1)
    ELSE LET rest == str_split(Tail(text), sep, maxsplit)
         IN  << <<Head(text)>> \o Head(rest) >> \o Tail(rest)

\* base64.urlsafe_b64encode(...).decode('utf-8') and base64.urlsafe_b64decode
urlsafe_b64encode(bytes) == [b64 |-> bytes]
urlsafe_b64decode(text) == text.b64

\* generate_link_components, lines 26-42; ephemeral_key is what
\* Fernet.generate_key() returned
generate_link_components(room_name, room_secret, server_url, ephemeral_key) ==
    LET plaintext_credentials ==
            room_name \o <<Bar>> \o server_url \o <<Bar>> \o room_secret
        encrypted_payload ==
            encrypt(ephemeral_key, utf8_encode(plaintext_credentials))
    IN  [payload |-> urlsafe_b64encode(encrypted_payload),
         key |-> urlsafe_b64encode(ephemeral_key)]

\* decrypt_credentials, lines 100-116: nothing is caught; the unpacking of
\* split('|', 2) raises ValueError unless it gives three parts
decrypt_credentials(encrypted_payload, ephemeral_key) ==
    LET key_bytes == urlsafe_b64decode(ephemeral_key)
        payload_bytes == urlsafe_b64decode(encrypted_payload)
        decrypted == decrypt(key_bytes, payload_bytes)
        text == utf8_decode(decrypted.data)
        parts == str_split(text.text, Bar, 2)
    IN  IF ~fernet_accepts(key_bytes) \/ ~decrypted.ok \/ ~text.ok
           \/ Len(parts) # 3
        THEN [raised |-> TRUE, value |-> <<>>]
        ELSE [raised |-> FALSE, value |-> parts]

LINK_SERVER_URL == <<"https", ":", "//share.enchat.io">>

\* construct_share_url, lines 82-86
construct_share_url(session_id, key) ==
    LINK_SERVER_URL \o <<"/join#">> \o session_id \o <<":">> \o key

\* parse_share_url, lines 88-98: both unpackings raise ValueError unless the
\* split gives two parts, and ValueError is caught
parse_share_url(url) ==
    LET halves == str_split(url, "/join#", -1)
        pieces == str_split(halves[2], ":", -1)
    IN  IF Len(halves) # 2 THEN [raised |-> FALSE, none |-> TRUE, value |-> <<>>]
        ELSE IF Len(pieces) # 2
        THEN [raised |-> FALSE, none |-> TRUE, value |-> <<>>]
        ELSE [raised |-> FALSE, none |-> FALSE,
              value |-> <<pieces[1], pieces[2]>>]

(* SpecLink: the functions of link_sharing.py on every credential, session  *)
(* id, key and URL of the model.                                            *)

MaxFieldLen == 2
MaxUrlLen == 4

\* room names, server URLs and room secrets
LinkFields == UNION {[1..n -> {97, Bar}] : n \in 0..MaxFieldLen}
\* session ids as the broker may issue them
SessionIds == UNION {[1..n -> {"a", ":"}] : n \in 1..MaxFieldLen}
\* url-safe base64 text: letters, digits, '-', '_' and '='
EncodedKeys == {<<"K">>, <<"K", "=">>}
ShareUrls == UNION {[1..n -> {"a", ":", "/join#"}] : n \in 0..MaxUrlLen}

LinkRoundTrip(room_name, room_secret, server_url, ephemeral_key) ==
    LET link == generate_link_components(room_name, room_secret, server_url,
                                         ephemeral_key)
        opened == decrypt_credentials(link.payload, link.key)
    IN  /\ last' = [op |-> "link_round_trip", room_name |-> room_name,
                    server_url |-> server_url, room_secret |-> room_secret,
                    raised |-> opened.raised, value |-> opened.value]
        /\ buf' = <<>>
        /\ UNCHANGED <<receiver_vars, sender_vars, temp_files, beyond_transfer>>

UrlRoundTrip(session_id, key) ==
    LET parsed == parse_share_url(construct_share_url(session_id, key))
    IN  /\ last' = [op |-> "url_round_trip", session_id |-> session_id,
                    key |-> key, raised |-> parsed.raised,
                    none |-> parsed.none, value |-> parsed.value]
        /\ buf' = <<>>
        /\ UNCHANGED <<receiver_vars, sender_vars, temp_files, beyond_transfer>>

ParseShareUrl(url) ==
    LET parsed == parse_share_url(url)
    IN  /\ last' = [op |-> "parse_share_url", url |-> url,
                    raised |-> parsed.raised, none |-> parsed.none,
                    value |-> parsed.value]
        /\ buf' = <<>>
        /\ UNCHANGED <<receiver_vars, sender_vars, temp_files, beyond_transfer>>

NextLink ==
    \/ \E room_name \in LinkFields, room_secret \in LinkFields,
          server_url \in LinkFields, k \in ValidKeys :
           LinkRoundTrip(room_name, room_secret, server_url, k)
    \/ \E session_id \in SessionIds, key \in EncodedKeys :
           UrlRoundTrip(session_id, key)
    \/ \E url \in ShareUrls : ParseShareUrl(url)

SpecLink == Init /\ [][NextLink]_vars

----------------------------------------------------------------------------
(* Properties of link sharing, checked under SpecLink *)

\* C22: decrypt_credentials applied to what generate_link_components made of
\* (room_name, room_secret, server_url) returns (room_name, server_url,
\* room_secret), also when a field contains '|'.
C22_CredentialsRoundTrip ==
    last.op = "link_round_trip" =>
        /\ ~last.raised
        /\ last.value = <<last.room_name, last.server_url, last.room_secret>>

Count(text, piece) == Cardinality({i \in 1..Len(text) : text[i] = piece})

\* C23: parse_share_url gives back the session id and key a URL was
\* constructed from, and returns None without raising for a URL with no
\* "/join#" marker or with no colon after the marker.
C23_ShareUrlRoundTrip ==
    /\ last.op = "url_round_trip" =>
           /\ ~last.raised /\ ~last.none
           /\ last.value = <<last.session_id, last.key>>
    /\ (/\ last.op = "parse_share_url"
        /\ \/ Count(last.url, "/join#") = 0
           \/ /\ Count(last.url, "/join#") = 1
              /\ Count(str_split(last.url, "/join#", -1)[2], ":") = 0)
           => ~last.raised /\ last.none

----------------------------------------------------------------------------
(* SpecRace: the listener thread runs handle_file_metadata and              *)
(* handle_file_chunk (file_transfer.py) one statement at a time, while the  *)
(* UI thread runs /files and /download between any two of them.  state.py   *)
(* holds plain dicts and no lock; a thread switch may fall between any two  *)
(* statements.  listener_pc.at is the line the listener is about to run.    *)

\* d[key] = value on a dict
setitem(dict, key, value) ==
    [k \in DOMAIN dict \cup {key} |-> IF k = key THEN value ELSE dict[k]]

RaceMetadata == {m \in ForgedMetadata : m.total_chunks \in 1..2 /\ m.hash = sha256(<<0>>)}
RaceChunks == {c \in ForgedChunks : c.chunk_num \in 0..1 /\ c.data = encrypt(RoomKey, <<0>>)}

MetadataLines == {"89", "90", "91", "98", "99", "102"}
ChunkLines == {"130", "131", "132", "141", "145", "147", "150"}

\* the listener loop hands the next FILE message to its handler
ListenerTakes(message, sender) ==
    /\ listener_pc = Idle
    /\ listener_pc' = [at |-> IF message \in RaceMetadata THEN "89" ELSE "130",
                       message |-> message, sender |-> sender]
    /\ buf' = <<>>
    /\ last' = [op |-> "listener"]
    /\ UNCHANGED <<receiver_vars, sender_vars, temp_files, shutdown_vars,
                   store_vars, session_vars, peer_lottery_state, input_vars>>

\* one statement of handle_file_metadata, lines 89-123
MetadataStep ==
    LET metadata == listener_pc.message
        file_id == metadata.file_id
        goto(line) == listener_pc' = [listener_pc EXCEPT !.at = line]
        checked == check_file_completion(available_files, file_id)
    IN  /\ listener_pc.at \in MetadataLines
        /\ last' = [op |-> "listener"]
        /\ UNCHANGED <<sender_vars, temp_files, delivered, shutdown_vars,
                       store_vars, session_vars, peer_lottery_state, input_vars>>
        /\ CASE listener_pc.at = "89" ->
                   /\ goto(IF file_id \notin DOMAIN available_files
                           THEN "90" ELSE "98")
                   /\ buf' = <<>>
                   /\ UNCHANGED <<available_files, file_chunks>>
             [] listener_pc.at = "90" ->
                   /\ file_chunks' = setitem(file_chunks, file_id, <<>>)
                   /\ goto("91")
                   /\ buf' = <<>>
                   /\ UNCHANGED available_files
             [] listener_pc.at = "91" ->
                   /\ available_files' =
                          setitem(available_files, file_id,
                                  [sender |-> listener_pc.sender,
                                   chunks_received |-> 0, complete |-> FALSE])
                   /\ goto("98")
                   /\ buf' = <<>>
                   /\ UNCHANGED file_chunks
             [] listener_pc.at = "98" ->
                   /\ available_files' =
                          [available_files EXCEPT ![file_id] =
                              setitem(@, "metadata", metadata)]
                   /\ goto("99")
                   /\ buf' = <<>>
                   /\ UNCHANGED file_chunks
             [] listener_pc.at = "99" ->
                   /\ available_files' =
                          [available_files EXCEPT ![file_id] =
                              setitem(@, "total_chunks", metadata.total_chunks)]
                   /\ goto("102")
                   /\ buf' = <<>>
                   /\ UNCHANGED file_chunks
             [] listener_pc.at = "102" ->
                   /\ available_files' = checked.files
                   /\ listener_pc' = Idle
                   /\ buf' = <<"File Transfer Incoming">> \o checked.buf
                   /\ UNCHANGED file_chunks

\* one statement of handle_file_chunk, lines 130-151
ChunkStep ==
    LET chunk_data == listener_pc.message
        file_id == chunk_data.file_id
        goto(line) == listener_pc' = [listener_pc EXCEPT !.at = line]
        checked == check_file_completion(available_files, file_id)
    IN  /\ listener_pc.at \in ChunkLines
        /\ last' = [op |-> "listener"]
        /\ UNCHANGED <<sender_vars, temp_files, delivered, shutdown_vars,
                       store_vars, session_vars, peer_lottery_state, input_vars>>
        /\ CASE listener_pc.at = "130" ->
                   /\ goto(IF file_id \notin DOMAIN available_files
                           THEN "131" ELSE "141")
                   /\ buf' = <<>>
                   /\ UNCHANGED <<available_files, file_chunks>>
             [] listener_pc.at = "131" ->
                   /\ file_chunks' = setitem(file_chunks, file_id, <<>>)
                   /\ goto("132")
                   /\ buf' = <<>>
                   /\ UNCHANGED available_files
             [] listener_pc.at = "132" ->
                   /\ available_files' =
                          setitem(available_files, file_id,
                                  placeholder(listener_pc.sender))
                   /\ goto("141")
                   /\ buf' = <<>>
                   /\ UNCHANGED file_chunks
             [] listener_pc.at = "141" ->
                   /\ IF available_files[file_id].complete
                      THEN listener_pc' = Idle
                      ELSE goto("145")
                   /\ buf' = <<>>
                   /\ UNCHANGED <<available_files, file_chunks>>
             [] listener_pc.at = "145" ->
                   /\ file_chunks' =
                          [file_chunks EXCEPT ![file_id] =
                              chunk_stored(@, chunk_data)]
                   /\ goto(IF chunk_data.chunk_num \notin DOMAIN file_chunks[file_id]
                           THEN "147" ELSE "150")
                   /\ buf' = <<>>
                   /\ UNCHANGED available_files
             [] listener_pc.at = "147" ->
                   /\ available_files' =
                          [available_files EXCEPT ![file_id].chunks_received =
                              Cardinality(DOMAIN file_chunks[file_id])]
                   /\ goto("150")
                   /\ buf' = <<>>
                   /\ UNCHANGED file_chunks
             [] listener_pc.at = "150" ->
                   /\ available_files' = checked.files
                   /\ listener_pc' = Idle
                   /\ buf' = checked.buf
                   /\ UNCHANGED file_chunks

\* the UI thread, between two statements of the listener
ReadFiles ==
    handle_command([cmd |-> "files", args |-> <<>>], Room, Me, FALSE, None, TRUE)

ReadDownload ==
    \E file_id \in FileIds, saved \in BOOLEAN :
        /\ Len(outbox_queue) < MaxOutbox
        /\ handle_command([cmd |-> "download", args |-> <<file_id>>], Room, Me,
                          FALSE, None, saved)

NextRace ==
    \/ \E message \in RaceMetadata \cup RaceChunks, sender \in Nicks :
           ListenerTakes(message, sender)
    \/ MetadataStep
    \/ ChunkStep
    \/ ReadFiles
    \/ ReadDownload

SpecRace == Init /\ [][NextRace]_vars

----------------------------------------------------------------------------
(* Properties of the shared maps under both threads, checked under SpecRace *)

\* the keys of a record of state.available_files once it is initialised
WholeRecord(info) ==
    {"metadata", "sender", "chunks_received", "total_chunks", "complete"}
        \subseteq DOMAIN info

\* the records a /files or /download call reads
RecordsRead(cmd, args) ==
    IF cmd = "files" THEN DOMAIN available_files
    ELSE {f \in DOMAIN available_files : args # <<>> /\ f = Head(args)}

\* C24: a /files or /download call that runs between any two statements of
\* the listener's file handlers does not fail, and every record it reads has
\* all its fields.
C24_ReaderSeesWholeRecords ==
    [][(/\ last'.op = "handle_command"
        /\ last'.cmd \in {"files", "download"})
       => /\ ~last'.raised
          /\ \A f \in RecordsRead(last'.cmd, last'.args) :
                 WholeRecord(available_files[f])]_vars

----------------------------------------------------------------------------
(* SpecPolls: the /poll and /vote commands of this client, while the        *)
(* listener applies the POLL_* envelopes of the room, this client's own     *)
(* among them, and the worker empties the queue.                            *)

PollLines == {line \in Lines : line.cmd \in {"poll", "vote"}}

TwoOptions == [question |-> <<"Q">>, options |-> << <<"A">>, <<"B">> >>]

\* index 2 is outside the options of the poll
PollEnvelopes ==
    [sender : Participants,
     text : {<<"POLL_START", TwoOptions>>, <<"POLL_VOTE", 0>>,
             <<"POLL_VOTE", 1>>, <<"POLL_VOTE", 2>>, <<"POLL_CLOSE">>}]

\* the options whose vote set holds nick, and the nicks that hold a vote
votes_of(polls, room, nick) ==
    IF room \notin DOMAIN polls THEN {}
    ELSE {i \in DOMAIN polls[room].votes : nick \in polls[room].votes[i]}

voters(polls, room) ==
    IF room \notin DOMAIN polls THEN {}
    ELSE UNION {polls[room].votes[i] : i \in DOMAIN polls[room].votes}

CommandPoll ==
    \E line \in PollLines :
        /\ Len(outbox_queue) < MaxOutbox
        /\ handle_command(line, Room, Me, FALSE, None, TRUE)

ListenPoll ==
    \E envelope \in PollEnvelopes :
        /\ poll_state' = poll_applied(poll_state, Room,
                                      envelope.sender, envelope.text)
        /\ room_participants' = presence_applied(room_participants,
                                                 envelope.sender, now)
        /\ buf' = <<>>
        /\ last' = [op |-> "listen", sender |-> envelope.sender,
                    text |-> envelope.text,
                    revote |-> envelope.sender \in voters(poll_state, Room)]
        /\ UNCHANGED <<receiver_vars, sender_vars, temp_files, shutdown_vars,
                       lottery_state, notifications_enabled,
                       last_generated_link, session_vars, thread_vars>>

NextPolls == CommandPoll \/ ListenPoll \/ Posted

SpecPolls == Init /\ [][NextPolls]_vars

----------------------------------------------------------------------------
(* Properties of the poll, checked under SpecPolls *)

\* a POLL_VOTE for an option of the running poll has just been applied
VoteApplied ==
    /\ last'.op = "listen"
    /\ last'.text[1] = "POLL_VOTE"
    /\ Room \in DOMAIN poll_state
    /\ last'.text[2] \in DOMAIN poll_state[Room].votes

\* C25: every nick is in the vote set of at most one option; an applied
\* POLL_VOTE leaves its sender in the set of the option voted for and in no
\* other, leaves every other nick where it was, and, when the sender had
\* voted before, leaves the number of distinct voters unchanged.
C25_LastVoteWins ==
    [][/\ \A n \in Participants : Cardinality(votes_of(poll_state', Room, n)) <= 1
       /\ VoteApplied =>
            /\ votes_of(poll_state', Room, last'.sender) = {last'.text[2]}
            /\ \A n \in Participants \ {last'.sender} :
                   votes_of(poll_state', Room, n) = votes_of(poll_state, Room, n)
            /\ last'.revote =>
                   Cardinality(voters(poll_state', Room))
                       = Cardinality(voters(poll_state, Room))]_vars

\* the number typed after /vote, when the argument is one
TypedNumber(args) ==
    LET word == SelectSeq(args, LAMBDA w : w # "")
    IN  IF Len(word) = 1 /\ word[1] \in {"-1", "0", "1", "2", "3"}
        THEN {Numeral[word[1]]}
        ELSE {}

\* C30: /vote n puts POLL_VOTE n-1 on the queue exactly when a poll is
\* active in the local poll state and n is an integer from 1 to the number
\* of options, whether or not the nick already holds a vote; otherwise it
\* puts nothing.  Every index put is one of the poll's options.
C30_VoteEnqueuesIndex ==
    [][(last'.op = "handle_command" /\ last'.cmd = "vote") =>
          LET accepted ==
                  {n \in TypedNumber(last'.args) :
                      /\ Room \in DOMAIN poll_state
                      /\ 1 <= n /\ n <= Len(poll_state[Room].options)}
          IN  /\ \A n \in accepted :
                     /\ Enqueued
                     /\ outbox_queue'[Len(outbox_queue')] =
                            [kind |-> "SYS", nick |-> last'.nick,
                             payload |-> <<"POLL_VOTE", n - 1>>]
                     /\ (n - 1) \in 0..(Len(poll_state[Room].options) - 1)
              /\ accepted = {} => outbox_queue' = outbox_queue]_vars

\* alice, who holds a vote for option 0, has typed /vote 2
C30_Witness ==
    /\ last.op = "handle_command"
    /\ last.cmd = "vote"
    /\ last.args = <<"", "2">>
    /\ Room \in DOMAIN poll_state
    /\ last.nick \in poll_state[Room].votes[0]
    /\ outbox_queue = <<[kind |-> "SYS", nick |-> last.nick,
                         payload |-> <<"POLL_VOTE", 1>>]>>

C25_Witness ==
    /\ last.op = "listen"
    /\ last.text = <<"POLL_VOTE", 1>>
    /\ last.revote
    /\ Room \in DOMAIN poll_state
    /\ poll_state[Room].votes[1] = {"bob", last.sender}
    /\ poll_state[Room].votes[0] = {}

----------------------------------------------------------------------------
(* SpecLottery: two clients of one room.  This client runs the /lottery     *)
(* commands; the relay delivers every LOTTERY_* envelope, this client's own *)
(* among them, to the listener of this client and to the listener of the    *)
(* peer, in the same order.                                                 *)

LotteryLines == {line \in Lines : line.cmd = "lottery"}

LotteryEnvelopes ==
    [sender : Participants,
     text : {<<"LOTTERY_START">>, <<"LOTTERY_ENTER">>, <<"LOTTERY_CANCEL">>}
                \cup {<<"LOTTERY_WINNER", w>> : w \in Participants}]

CommandLottery ==
    \E line \in LotteryLines :
        \E winner \in Winners(line) :
            /\ Len(outbox_queue) < MaxOutbox
            /\ handle_command(line, Room, Me, FALSE, winner, TRUE)

Deliver ==
    \E envelope \in LotteryEnvelopes :
        /\ lottery_state' = lottery_applied(lottery_state, Room,
                                            envelope.sender, envelope.text)
        /\ peer_lottery_state' = lottery_applied(peer_lottery_state, Room,
                                                 envelope.sender, envelope.text)
        /\ room_participants' = presence_applied(room_participants,
                                                 envelope.sender, now)
        /\ buf' = IF envelope.text[1] = "LOTTERY_WINNER"
                  THEN <<"Lottery winner", envelope.text[2]>> ELSE <<>>
        /\ last' = [op |-> "deliver", sender |-> envelope.sender,
                    text |-> envelope.text,
                    before |-> snapshot(lottery_state, Room, NoLottery)]
        /\ UNCHANGED <<receiver_vars, sender_vars, temp_files, shutdown_vars,
                       poll_state, notifications_enabled, last_generated_link,
                       session_vars, listener_pc, input_vars>>

NextLottery == CommandLottery \/ Deliver \/ Posted

SpecLottery == Init /\ [][NextLottery]_vars

----------------------------------------------------------------------------
(* Properties of the lottery, checked under SpecLottery *)

C31_WinnerIsParticipant ==
    [][(last'.op = "handle_command" /\ last'.cmd = "lottery") =>
          LET entered == IF Room \in DOMAIN lottery_state
                         THEN lottery_state[Room].participants ELSE {}
              put == {i \in (Len(outbox_queue) + 1)..Len(outbox_queue') :
                         outbox_queue'[i].payload[1] = "LOTTERY_WINNER"}
          IN  /\ \A i \in put : outbox_queue'[i].payload[2] \in entered
              /\ entered = {} => put = {}]_vars

\* alice started the lottery, bob alone entered, alice drew: bob is named
C31_Witness ==
    /\ last.op = "handle_command"
    /\ last.cmd = "lottery"
    /\ lower(first_word(last.args)) = "draw"
    /\ Room \in DOMAIN lottery_state
    /\ lottery_state[Room] = [starter |-> Me, participants |-> {"bob"}]
    /\ outbox_queue = <<[kind |-> "SYS", nick |-> Me,
                         payload |-> <<"LOTTERY_WINNER", "bob">>]>>

----------------------------------------------------------------------------
(* SpecSync: the listener applies the LOTTERY_*, POLL_* and FILE messages   *)
(* of the room in any order, each any number of times.                      *)

SyncEnvelopes == LotteryEnvelopes \cup PollEnvelopes

Hear ==
    \E envelope \in SyncEnvelopes :
        /\ lottery_state' = lottery_applied(lottery_state, Room,
                                            envelope.sender, envelope.text)
        /\ poll_state' = poll_applied(poll_state, Room,
                                      envelope.sender, envelope.text)
        /\ room_participants' = presence_applied(room_participants,
                                                 envelope.sender, now)
        /\ buf' = <<>>
        /\ last' = [op |-> "hear", sender |-> envelope.sender,
                    text |-> envelope.text,
                    repeat |-> /\ last.op = "hear"
                               /\ last.sender = envelope.sender
                               /\ last.text = envelope.text]
        /\ UNCHANGED <<receiver_vars, sender_vars, temp_files, shutdown_vars,
                       notifications_enabled, last_generated_link, session_vars,
                       thread_vars>>

HearMetadata == \E m \in RaceMetadata, s \in Nicks : handle_file_metadata(m, s)

HearChunk == \E c \in RaceChunks, s \in Nicks : handle_file_chunk(c, s)

NextSync == Hear \/ HearMetadata \/ HearChunk

SpecSync == Init /\ [][NextSync]_vars

----------------------------------------------------------------------------
(* Properties of the listener under duplicate delivery, checked under       *)
(* SpecSync *)

\* this step applies the message the step before it applied
Duplicate ==
    \/ /\ last.op = "hear" /\ last'.op = "hear"
       /\ last'.sender = last.sender
       /\ last'.text = last.text
    \/ /\ last.op = "handle_file_metadata" /\ last'.op = "handle_file_metadata"
       /\ last'.file_id = last.file_id
       /\ available_files'[last.file_id].metadata
              = available_files[last.file_id].metadata
    \/ /\ last.op = "handle_file_chunk" /\ last'.op = "handle_file_chunk"
       /\ last'.file_id = last.file_id
       /\ last'.chunk_num = last.chunk_num
       /\ last'.data = last.data

\* C27: applying a LOTTERY_*, POLL_* or FILE message a second time in
\* succession leaves lottery state, poll state, file records and chunk maps
\* as the first application left them.
C27_DuplicateChangesNothing ==
    [][Duplicate =>
          UNCHANGED <<lottery_state, poll_state, available_files, file_chunks>>]_vars

\* LOTTERY_ENTER applied twice in succession for a nick that is entered
C27_Witness ==
    /\ last.op = "hear"
    /\ last.repeat
    /\ last.text = <<"LOTTERY_ENTER">>
    /\ Room \in DOMAIN lottery_state
    /\ last.sender \in lottery_state[Room].participants

----------------------------------------------------------------------------
(* SpecInput: the raw terminal input thread (enchat_lib/input.py, _posix)   *)
(* beside the signal handler of start_chat and the UI loop that takes the   *)
(* lines.  A line is the sequence of the characters typed.                  *)

MaxLineLen == 2    \* characters held in state.current_input
MaxInput == 2      \* lines waiting on state.input_queue

ENTER == "\n"
CTRL_C == "^C"       \* "\x03"
BACKSPACE == "^?"    \* "\x7f"
Keys == {"a", ENTER, CTRL_C, BACKSPACE}
ExitLine == <<"/", "e", "x", "i", "t">>

\* quit_handler, enchat.py lines 128-131, on SIGINT, SIGTERM or SIGHUP
QuitHandler ==
    /\ ~SHUTDOWN_EVENT
    /\ SHUTDOWN_EVENT' = TRUE
    /\ buf' = <<>>
    /\ last' = [op |-> "quit_handler"]
    /\ UNCHANGED <<receiver_vars, sender_vars, temp_files, shutdown_vars,
                   store_vars, session_vars, listener_pc, peer_lottery_state,
                   input_queue, current_input>>

\* one turn of the while True loop of _posix, lines 16-32, with the
\* character ch ready on stdin.  The thread is a daemon: it runs as long as
\* the process does.
PosixRead(ch) ==
    /\ main_pc # "closed"
    /\ CASE ch = ENTER ->
               /\ Len(input_queue) < MaxInput
               /\ input_queue' = Append(input_queue, current_input)
               /\ current_input' = <<>>
         [] ch = CTRL_C ->
               /\ Len(input_queue) < MaxInput
               /\ input_queue' = Append(input_queue, ExitLine)
               /\ UNCHANGED current_input
         [] ch = BACKSPACE /\ current_input # <<>> ->
               /\ current_input' = SubSeq(current_input, 1, Len(current_input) - 1)
               /\ UNCHANGED input_queue
         [] OTHER ->
               /\ Len(current_input) < MaxLineLen
               /\ current_input' = Append(current_input, ch)
               /\ UNCHANGED input_queue
    /\ buf' = <<>>
    /\ last' = [op |-> "_posix", ch |-> ch, after_shutdown |-> SHUTDOWN_EVENT]
    /\ UNCHANGED <<receiver_vars, sender_vars, temp_files, shutdown_vars,
                   store_vars, session_vars, listener_pc, peer_lottery_state,
                   SHUTDOWN_EVENT>>

\* the UI loop takes the next line; /exit ends chat_ui.run
UiTakesLine ==
    /\ main_pc = "run"
    /\ input_queue # <<>>
    /\ input_queue' = Tail(input_queue)
    /\ main_pc' = IF Head(input_queue) = ExitLine THEN "finally" ELSE "run"
    /\ buf' = IF Head(input_queue) = ExitLine THEN <<"Disconnecting...">> ELSE <<>>
    /\ last' = [op |-> "input_queue.get", exit |-> Head(input_queue) = ExitLine]
    /\ UNCHANGED <<receiver_vars, sender_vars, temp_files, out_stop, in_flight,
                   shutdown_log, store_vars, session_vars, listener_pc,
                   peer_lottery_state, SHUTDOWN_EVENT, current_input>>

\* the UI loop finds the shutdown signal set and returns
UiSeesShutdown ==
    /\ SHUTDOWN_EVENT
    /\ StartChatUiEnds("signal")

NextInput ==
    \/ QuitHandler
    \/ \E ch \in Keys : PosixRead(ch)
    \/ UiTakesLine
    \/ UiSeesShutdown
    \/ StartChatEnqueueLeft

SpecInput == Init /\ [][NextInput]_vars

----------------------------------------------------------------------------
(* Properties of the input loop, checked under SpecInput *)

\* C28: once the shutdown signal is set, the input loop reads no further
\* character and puts no further line on the input queue.
C28_InputStopsAfterShutdown ==
    [][SHUTDOWN_EVENT =>
          /\ last'.op # "_posix"
          /\ Len(input_queue') <= Len(input_queue)
          /\ current_input' = current_input]_vars

\* the characters of a line
Chars(line) == {line[i] : i \in 1..Len(line)}

\* C37: the input loop edits the line as typed: a printable character is
\* appended, backspace removes the last character and does nothing on an
\* empty buffer, Enter puts the buffer on the input queue and empties it;
\* no line on the queue holds a backspace character.
C37_LineEditing ==
    [][(last'.op = "_posix") =>
          /\ last'.ch = "a" => current_input' = Append(current_input, "a")
          /\ last'.ch = BACKSPACE =>
                 current_input' =
                    IF current_input = <<>> THEN <<>>
                    ELSE SubSeq(current_input, 1, Len(current_input) - 1)
          /\ last'.ch = ENTER =>
                 /\ input_queue' = Append(input_queue, current_input)
                 /\ current_input' = <<>>
          /\ \A i \in 1..Len(input_queue') :
                 BACKSPACE \notin Chars(input_queue'[i])]_vars

----------------------------------------------------------------------------
(* SpecFiles: the listener stores whatever FILE metadata and chunk messages *)
(* the room carries, a whole handler at a time, while the UI loop runs      *)
(* /files and /download and the worker empties the queue.                   *)

DownloadArgs == {<<>>, <<"f1">>, <<"", "f1">>, <<"f9">>}

\* metadata with the hash of the one-byte file or of the empty file, and
\* chunks that carry that byte or a corrupted token
FilesMetadata ==
    {m \in ForgedMetadata : m.hash \in {sha256(<<>>), sha256(<<0>>)}}
FilesChunks ==
    {c \in ForgedChunks :
        c.data \in {encrypt(RoomKey, <<0>>), corrupt(encrypt(RoomKey, <<0>>))}}

StoreMetadata ==
    \E m \in FilesMetadata, s \in Nicks : handle_file_metadata(m, s)

StoreChunk ==
    \E c \in FilesChunks, s \in Nicks : handle_file_chunk(c, s)

FilesLine ==
    handle_command([cmd |-> "files", args |-> <<>>], Room, Me, FALSE, None, TRUE)

DownloadLine ==
    \E args \in DownloadArgs, saved \in BOOLEAN :
        /\ Len(outbox_queue) < MaxOutbox
        /\ handle_command([cmd |-> "download", args |-> args], Room, Me,
                          FALSE, None, saved)

NextFiles == StoreMetadata \/ StoreChunk \/ FilesLine \/ DownloadLine \/ Posted

SpecFiles == Init /\ [][NextFiles]_vars

----------------------------------------------------------------------------
(* Properties of /files and /download, checked under SpecFiles *)

\* the FILE_DOWNLOAD announcements a step puts on the queue
Announced ==
    {outbox_queue'[i].payload[2] :
        i \in {j \in (Len(outbox_queue) + 1)..Len(outbox_queue') :
                  outbox_queue'[j].payload[1] = "FILE_DOWNLOAD"}}

\* C32: /download announces FILE_DOWNLOAD only for a file whose record is
\* complete, whose chunks were assembled into bytes that hash to the
\* metadata hash, and whose copy was saved; for no file id, an unknown one,
\* a record that is not complete, a failed assembly or a failed save the
\* queue stays as it was.
C32_AnnouncedOnlyAfterSaved ==
    [][(last'.op = "handle_command" /\ last'.cmd = "download") =>
          LET r(f) == assemble_file_from_chunks(available_files, file_chunks,
                                                temp_files, f, RoomKey)
          IN  /\ \A f \in Announced :
                     /\ f \in DOMAIN available_files
                     /\ available_files[f].complete
                     /\ r(f).error = None
                     /\ sha256(r(f).temp[f].bytes) = available_files[f].metadata.hash
                     /\ buf' = <<"Download Complete">>
              /\ Announced = {} => outbox_queue' = outbox_queue
              /\ buf' # <<"Download Complete">> => outbox_queue' = outbox_queue]_vars

\* f1 arrived whole, was assembled, saved and announced
C32_Witness ==
    /\ last.op = "handle_command"
    /\ last.cmd = "download"
    /\ buf = <<"Download Complete">>
    /\ available_files["f1"].complete
    /\ outbox_queue = <<[kind |-> "SYS", nick |-> Me,
                         payload |-> <<"FILE_DOWNLOAD", "f1">>]>>

\* C33: after any metadata and chunk arrivals, a record made by a chunk that
\* came before its metadata included, /files does not raise and appends one
\* line for every record of available_files.
C33_FilesListsEveryRecord ==
    [][(last'.op = "handle_command" /\ last'.cmd = "files") =>
          /\ ~last'.raised
          /\ DOMAIN available_files # {} =>
                 Len(buf') = 1 + Cardinality(DOMAIN available_files)]_vars

----------------------------------------------------------------------------
(* Further properties of the receiver, checked under Spec *)

\* C34: a record marked complete stores exactly the chunk numbers
\* 0..total_chunks-1, whatever chunk numbers the arriving messages carried.
C34_CompleteStoresExactRange ==
    \A f \in DOMAIN available_files :
        available_files[f].complete =>
            DOMAIN file_chunks[f] = 0..(available_files[f].total_chunks - 1)

\* C35: a record stays in available_files, its complete flag once true
\* stays true, its chunks_received never goes down, and a chunk message for
\* a complete record changes neither its stored chunks nor chunks_received.
C35_CompleteIsFinal ==
    [][\A f \in DOMAIN available_files :
          /\ f \in DOMAIN available_files'
          /\ available_files[f].complete => available_files'[f].complete
          /\ available_files'[f].chunks_received >= available_files[f].chunks_received
          /\ (available_files[f].complete /\ last'.op = "handle_file_chunk"
                 /\ last'.file_id = f) =>
                 /\ file_chunks'[f] = file_chunks[f]
                 /\ available_files'[f].chunks_received =
                        available_files[f].chunks_received]_vars

\* chunk 0 completed f1; chunk 1, a number never seen before, came afterwards
\* and was not stored
C35_Witness ==
    /\ last.op = "handle_file_chunk"
    /\ last.file_id = "f1"
    /\ last.chunk_num = 1
    /\ ~last.again
    /\ available_files["f1"].complete
    /\ available_files["f1"].chunks_received = 1
    /\ DOMAIN file_chunks["f1"] = {0}

----------------------------------------------------------------------------
(* SpecClean: /clean-chat in a public and in a private room, with every     *)
(* kind of argument, while the roster grows with the nicks heard in the     *)
(* room and with /who.                                                      *)

CleanArgs ==
    {<<>>, <<"confirm">>, <<"", "confirm", "">>, <<"CONFIRM">>,
     <<"confirm", "now">>}

CleanChatLine ==
    \E args \in CleanArgs, is_public \in BOOLEAN :
        /\ Len(outbox_queue) < MaxOutbox
        /\ handle_command([cmd |-> "clean-chat", args |-> args], Room, Me,
                          is_public, None, TRUE)

WhoLine ==
    handle_command([cmd |-> "who", args |-> <<>>], Room, Me, FALSE, None, TRUE)

NextClean == CleanChatLine \/ WhoLine \/ Listen \/ Posted

SpecClean == Init /\ [][NextClean]_vars

----------------------------------------------------------------------------
(* Properties of /clean-chat, checked under SpecClean *)

\* the argument is the word confirm, spaces around it aside
SaysConfirm(args) == args \in {<<"confirm">>, <<"", "confirm", "">>}

\* C38: /clean-chat puts ROOM_CLEANUP on the queue and clears the buffer
\* when the room is private and either the roster holds at most one
\* participant or the argument is confirm; in a public room, and with more
\* than one participant and no confirm, it puts nothing and clears nothing.
C38_CleanChatNeedsConfirm ==
    [][(last'.op = "handle_command" /\ last'.cmd = "clean-chat") =>
          LET goes == /\ ~last'.is_public
                      /\ Cardinality(DOMAIN room_participants) > 1 =>
                             SaysConfirm(last'.args)
          IN  IF goes
              THEN /\ Enqueued
                   /\ outbox_queue'[Len(outbox_queue')] =
                          [kind |-> "SYS", nick |-> last'.nick,
                           payload |-> <<"ROOM_CLEANUP">>]
                   /\ last'.cleared
              ELSE /\ outbox_queue' = outbox_queue
                   /\ ~last'.cleared]_vars

\* alice and bob are in the private room and alice typed /clean-chat confirm
C38_Witness ==
    /\ last.op = "handle_command"
    /\ last.cmd = "clean-chat"
    /\ SaysConfirm(last.args)
    /\ ~last.is_public
    /\ last.cleared
    /\ DOMAIN room_participants = {"alice", "bob"}
    /\ outbox_queue = <<[kind |-> "SYS", nick |-> Me,
                         payload |-> <<"ROOM_CLEANUP">>]>>

====
